---- MODULE Spec2Model ----
(***************************************************************************)
(* SCXQ2: the three-token bytecode codec (encodeSCXQ2 / scxq2DecodeUtf16)  *)
(* and the pack verifier (scxq2PackVerify).                                *)
(*                                                                         *)
(* JavaScript strings are sequences of UTF-16 code units (naturals).       *)
(* JSON values are tagged records: t is the JavaScript type, v the value.  *)
(* Byte offsets and array indices keep the source's 0-based numbering; the *)
(* element at JavaScript index n of a sequence s is s[n + 1].              *)
(***************************************************************************)
EXTENDS Integers, Sequences, FiniteSets, TLC

VARIABLES
    pc,        \* codec run: "encode", "decode", "done" or "aborted"
    origin,    \* where bytes came from: "encoder" or "raw"
    text,      \* encodeSCXQ2: text
    dictArr,   \* the dictionary array D (encodeSCXQ2: dict, scxq2DecodeUtf16: dictArr)
    eI,        \* encodeSCXQ2: i
    eBytes,    \* encodeSCXQ2: bytes
    bytes,     \* scxq2DecodeUtf16: bytes
    maxOut,    \* scxq2DecodeUtf16: maxOut
    i,         \* scxq2DecodeUtf16: i
    out,       \* scxq2DecodeUtf16: out
    outUnits,  \* scxq2DecodeUtf16: outUnits
    dres       \* scxq2DecodeUtf16: the returned object, Running before the return

codecVars == <<pc, origin, text, dictArr, eI, eBytes, bytes, maxOut, i, out, outUnits, dres>>

VARIABLES
    vpc,       \* verifier run: "idle", "build", "sealed" or "verified"
    thePack,   \* scxq2PackVerify: pack
    policy,    \* scxq2PackVerify: P, the default policy merged with opts
    nEdits,    \* the number of fields changed in the pack since it was built
    vres       \* the value scxq2PackVerify returned

verifyVars == <<vpc, thePack, policy, nEdits, vres>>

VARIABLES
    obj1,       \* canon tests: a value tree
    obj2,       \* the same tree with its object keys in another order
    canon1,     \* canon(obj1), Undef before the call
    canon2      \* canon(obj2), Undef before the call

canonVars == <<obj1, obj2, canon1, canon2>>

VARIABLES
    input,      \* engine: the source text given to ccCompress
    opts,       \* the options object given to ccCompress
    now,        \* the clock, in seconds
    nodeCrypto, \* whether getNodeCrypto() returns the crypto module (not null)
    first,      \* the first compression call and what it returned, or Undef
    second,     \* the second compression call and what it returned, or Undef
    craft,      \* a dict/block pair that no compression call made, or Undef
    rt          \* what ccDecompress returned or that it threw, or Undef

engineVars == <<input, opts, now, nodeCrypto, first, second, craft, rt>>
VARIABLES
    wpc,        \* decodeWithDict: the position in the function body
    hasFree,    \* whether the WASM instance exports free
    outCap,     \* maxOutputUnits, the capacity of the output buffer in units
    live,       \* the buffers allocated and not freed: "dict", "bytes", "out"
    rc,         \* what exports.decode_utf16 returned
    outMem,     \* the code units decode_utf16 wrote to the output buffer
    wres        \* what decodeWithDict returned

wasmVars == <<wpc, hasFree, outCap, live, rc, outMem, wres>>
vars == <<codecVars, verifyVars, canonVars, engineVars, wasmVars>>

(***************************************************************************)
(* Bounds of the model.                                                    *)
(***************************************************************************)
MaxTextLen == 3
MaxDictLen == 2
MaxBytes == 4
MaxOut == 3

(***************************************************************************)
(* JSON values.                                                            *)
(***************************************************************************)
Undef == [t |-> "undef"]               \* the value of a property that is absent
UStr(s) == [t |-> "ustr", v |-> s]     \* a string given by its code units
JNum(n) == [t |-> "num", v |-> n]
Arr(s) == [t |-> "arr", v |-> s]       \* an array given by its elements
Fill(n, e) == [t |-> "fill", n |-> n, e |-> e]   \* Array(n).fill(e)
IsString(x) == x.t \in {"ustr", "str", "sha"}   \* typeof x === "string"
IsArray(x) == x.t \in {"arr", "fill"}           \* Array.isArray(x)

\* a.length and a[j] of an array; a read past the end yields undefined
ArrLen(a) == IF a.t = "fill" THEN a.n ELSE Len(a.v)
ArrAt(a, j) ==
    IF j < 0 \/ j >= ArrLen(a) THEN Undef
    ELSE IF a.t = "fill" THEN a.e ELSE a.v[j + 1]

Min(a, b) == IF a < b THEN a ELSE b

SeqsUpTo(S, n) == UNION {[1..k -> S] : k \in 0..n}

(***************************************************************************)
(* Input alphabets.                                                        *)
(***************************************************************************)
Units == {65, 66, 300}
EncTokens == {<<>>, <<65>>, <<65, 66>>, <<300, 65>>}
DecEntries == {UStr(<<65, 66>>), JNum(7)}
ByteVals == {0, 1, 128, 129, 130}

Running == [running |-> TRUE]
NoResult == [none |-> TRUE]   \* scxq2PackVerify has not been called


(***************************************************************************)
(* encodeSCXQ2 (dist/engine.js).                                           *)
(***************************************************************************)

\* text.startsWith(tok, pos)
StartsWith(txt, tok, pos) ==
    /\ pos + Len(tok) <= Len(txt)
    /\ \A n \in 1..Len(tok) : txt[pos + n] = tok[n]

\* a map that keeps the first index of a repeated token
MapGet_First(dict, tok) ==
    CHOOSE idx \in 0..(Len(dict) - 1) :
        /\ dict[idx + 1].v = tok
        /\ \A n \in 0..(idx - 1) : dict[n + 1].v # tok

\* new Map(dict.map((t, i) => [t, i])).get(tok): a later entry with the same
\* key overwrites an earlier one, so the map holds the last index of tok.
MapGet(dict, tok) ==
    CHOOSE idx \in 0..(Len(dict) - 1) :
        /\ dict[idx + 1].v = tok
        /\ \A n \in (idx + 1)..(Len(dict) - 1) : dict[n + 1].v # tok

\* for (const tok of dict) if (text.startsWith(tok, i)) { ... break; }
\* the 1-based position of the first entry that matches at i, 0 when none does.
FirstMatch(txt, dict, pos) ==
    IF \E n \in 1..Len(dict) : StartsWith(txt, dict[n].v, pos)
    THEN CHOOSE n \in 1..Len(dict) :
            /\ StartsWith(txt, dict[n].v, pos)
            /\ \A k \in 1..(n - 1) : ~StartsWith(txt, dict[k].v, pos)
    ELSE 0

\* bytes.push(0x80, idx >> 8, idx & 255)
DictRefBytes_LE(idx) == <<128, idx % 256, idx \div 256>>
DictRefBytes(idx) == <<128, idx \div 256, idx % 256>>

\* c < 128 ? bytes.push(c) : bytes.push(0x81, c >> 8, c & 255)
LiteralBytes(c) == IF c < 128 THEN <<c>> ELSE <<129, c \div 256, c % 256>>

\* The array that holds the encoder's bytes cannot grow without limit: a scan
\* that never advances ends in an allocation failure instead of a return.
\* Every returning scan pushes at most 3 bytes per code unit of text.
EncBytesCap == 3 * (MaxTextLen + 2)

\* an iteration whose literal branch reads text.charCodeAt(i) without i++
EncodeIter_LiteralStays(txt, dict, e) ==
    LET n == FirstMatch(txt, dict, e.i) IN
    IF n # 0
    THEN LET tok == dict[n].v
             idx == MapGet(dict, tok) IN
         [i |-> e.i + Len(tok), bytes |-> e.bytes \o DictRefBytes(idx)]
    ELSE [i |-> e.i, bytes |-> e.bytes \o LiteralBytes(txt[e.i + 1])]

\* One iteration of the scan loop, for a position e.i < text.length.
EncodeIter(txt, dict, e) ==
    LET n == FirstMatch(txt, dict, e.i) IN
    IF n # 0
    THEN LET tok == dict[n].v
             idx == MapGet(dict, tok) IN
         [i |-> e.i + Len(tok), bytes |-> e.bytes \o DictRefBytes(idx)]
    ELSE [i |-> e.i + 1, bytes |-> e.bytes \o LiteralBytes(txt[e.i + 1])]

(***************************************************************************)
(* scxq2DecodeUtf16 (dist/index.js).                                       *)
(***************************************************************************)
DecOk(value) == [ok |-> TRUE, value |-> value]
DecFail(kind, off) == [ok |-> FALSE, kind |-> kind, byte_offset |-> off]
DecFailIndex(kind, off, j) ==
    [ok |-> FALSE, kind |-> kind, byte_offset |-> off, index |-> j]
DecFailByte(off, b) ==
    [ok |-> FALSE, kind |-> "invalid_byte", byte_offset |-> off, byte |-> b]

\* bytes[n] as an operand of << and |: undefined (a read past the end) is 0
ByteOrZero(bs, n) == IF n < Len(bs) THEN bs[n + 1] ELSE 0

\* (bytes[i + 1] << 8) | bytes[i + 2], for bytes in 0..255
Be16(bs, pos) == ByteOrZero(bs, pos + 1) * 256 + ByteOrZero(bs, pos + 2)

\* if (i + 2 >= m) return truncated_sequence
Truncated_Lax(m, pos) == pos + 2 > m
Truncated(m, pos) == pos + 2 >= m

\* if (j < 0 || j >= dictArr.length) return dict_index_oob
IndexOob_Lax(j, n) == j < 0 \/ j > n
IndexOob(j, n) == j < 0 \/ j >= n

\* else if (b === 0x81)
IsUtf16Marker_Wide(b) == b >= 129
IsUtf16Marker(b) == b = 129

\* a decoder that does not test the limit inside the loop
LimitCheck_Skip(bs, mo, s) == s

\* if (outUnits > maxOut) return {ok: false, kind: "output_limit", ...}
LimitCheck_OffByOne(bs, mo, s) ==
    IF s.outUnits > mo + 1
    THEN [s EXCEPT !.res = DecFail("output_limit", Min(Len(bs) - 1, s.i))]
    ELSE s
LimitCheck_Partial(bs, mo, s) ==
    IF s.outUnits > mo
    THEN [s EXCEPT !.res = [ok |-> FALSE, kind |-> "output_limit",
                            byte_offset |-> Min(Len(bs) - 1, s.i), value |-> s.out]]
    ELSE s
LimitCheck(bs, mo, s) ==
    IF s.outUnits > mo
    THEN [s EXCEPT !.res = DecFail("output_limit", Min(Len(bs) - 1, s.i))]
    ELSE s

\* One pass through the for loop: the loop test and, when it passes, the body.
\* s = [i, out, outUnits, res]; res is Running until the function returns.
DecodeIter(dict, bs, mo, s) ==
    LET m == Len(bs) IN
    IF ~(s.i < m) THEN [s EXCEPT !.res = DecOk(s.out)]
    ELSE
    LET b == bs[s.i + 1] IN
    IF b <= 127
    THEN LimitCheck(bs, mo,
            [s EXCEPT !.out = Append(@, b), !.outUnits = @ + 1, !.i = @ + 1])
    ELSE IF b = 128
    THEN IF Truncated(m, s.i)
         THEN [s EXCEPT !.res = DecFail("truncated_sequence", s.i)]
         ELSE LET j == Be16(bs, s.i) IN
              IF IndexOob(j, ArrLen(dict))
              THEN [s EXCEPT !.res = DecFailIndex("dict_index_oob", s.i, j)]
              ELSE LET tok == ArrAt(dict, j) IN
                   IF ~IsString(tok)
                   THEN [s EXCEPT !.res = DecFailIndex("dict_entry_invalid", s.i, j)]
                   ELSE LimitCheck(bs, mo,
                           [s EXCEPT !.out = @ \o tok.v,
                                     !.outUnits = @ + Len(tok.v),
                                     !.i = @ + 3])
    ELSE IF IsUtf16Marker(b)
    THEN IF Truncated(m, s.i)
         THEN [s EXCEPT !.res = DecFail("truncated_sequence", s.i)]
         ELSE LimitCheck(bs, mo,
                 [s EXCEPT !.out = Append(@, Be16(bs, s.i)),
                           !.outUnits = @ + 1,
                           !.i = @ + 3])
    ELSE [s EXCEPT !.res = DecFailByte(s.i, b)]

DecStart == [i |-> 0, out |-> <<>>, outUnits |-> 0, res |-> Running]

RECURSIVE DecodeRun(_, _, _, _)
DecodeRun(dict, bs, mo, s) ==
    IF s.res # Running THEN s.res
    ELSE DecodeRun(dict, bs, mo, DecodeIter(dict, bs, mo, s))

\* The whole call.
scxq2DecodeUtf16(dict, bs, mo) == DecodeRun(dict, bs, mo, DecStart)

(***************************************************************************)
(* The codec as a state machine: one action per loop iteration.            *)
(***************************************************************************)
decState == [i |-> i, out |-> out, outUnits |-> outUnits, res |-> dres]

\* no canon test is running
CanonIdle == obj1 = Undef /\ obj2 = Undef /\ canon1 = Undef /\ canon2 = Undef

\* decodeWithDict is not called
WasmIdle ==
    /\ wpc = "idle" /\ hasFree = FALSE /\ outCap = 0 /\ live = {}
    /\ rc = 0 /\ outMem = <<>> /\ wres = NoResult

\* no engine call is made
EngineIdle ==
    /\ input = <<>> /\ opts = Undef /\ now = 0 /\ nodeCrypto = FALSE
    /\ first = Undef /\ second = Undef /\ craft = Undef /\ rt = Undef

\* codec and verifier at rest
CodecIdle ==
    /\ pc = "idle" /\ origin = "none" /\ text = <<>> /\ dictArr = Arr(<<>>)
    /\ eI = 0 /\ eBytes = <<>> /\ bytes = <<>> /\ maxOut = 0
    /\ i = 0 /\ out = <<>> /\ outUnits = 0 /\ dres = Running

VerifyIdle ==
    /\ vpc = "idle" /\ thePack = Undef /\ policy = Undef
    /\ nEdits = 0 /\ vres = NoResult

InitRoundtrip ==
    /\ pc = "encode"
    /\ origin = "encoder"
    /\ text \in SeqsUpTo(Units, MaxTextLen)
    /\ dictArr \in {Arr(d) : d \in SeqsUpTo({UStr(tk) : tk \in EncTokens}, MaxDictLen)}
    /\ bytes = <<>>

InitRaw ==
    /\ pc = "decode"
    /\ origin = "raw"
    /\ text = <<>>
    /\ dictArr \in {Arr(d) : d \in SeqsUpTo(DecEntries, MaxDictLen)}
    /\ bytes \in SeqsUpTo(ByteVals, MaxBytes)

Init ==
    /\ InitRoundtrip \/ InitRaw
    /\ maxOut \in 0..MaxOut
    /\ eI = 0
    /\ eBytes = <<>>
    /\ i = 0
    /\ out = <<>>
    /\ outUnits = 0
    /\ dres = Running
    /\ CanonIdle
    /\ EngineIdle
    /\ WasmIdle
    /\ vpc = "idle"
    /\ thePack = Undef
    /\ policy = Undef
    /\ nEdits = 0
    /\ vres = NoResult

decUnchanged == <<i, out, outUnits, dres, bytes, maxOut, verifyVars, canonVars, wasmVars, engineVars>>

\* An iteration whose dictionary scan finds a match.
EncodeMatch ==
    /\ pc = "encode"
    /\ eI < Len(text)
    /\ Len(eBytes) <= EncBytesCap
    /\ FirstMatch(text, dictArr.v, eI) # 0
    /\ LET e == EncodeIter(text, dictArr.v, [i |-> eI, bytes |-> eBytes]) IN
       /\ eI' = e.i
       /\ eBytes' = e.bytes
    /\ UNCHANGED <<pc, origin, text, dictArr, decUnchanged>>

\* An iteration that finds no match and emits the code unit.
EncodeLiteral ==
    /\ pc = "encode"
    /\ eI < Len(text)
    /\ Len(eBytes) <= EncBytesCap
    /\ FirstMatch(text, dictArr.v, eI) = 0
    /\ LET e == EncodeIter(text, dictArr.v, [i |-> eI, bytes |-> eBytes]) IN
       /\ eI' = e.i
       /\ eBytes' = e.bytes
    /\ UNCHANGED <<pc, origin, text, dictArr, decUnchanged>>

\* The scan loop ends and the byte stream is handed to the decoder.
EncodeReturn ==
    /\ pc = "encode"
    /\ ~(eI < Len(text))
    /\ pc' = "decode"
    /\ bytes' = eBytes
    /\ UNCHANGED <<origin, text, dictArr, eI, eBytes, maxOut, i, out, outUnits, dres>>
    /\ UNCHANGED <<verifyVars, canonVars, wasmVars, engineVars>>

\* The byte array outgrows memory: encodeSCXQ2 does not return.
EncodeAbort ==
    /\ pc = "encode"
    /\ eI < Len(text)
    /\ Len(eBytes) > EncBytesCap
    /\ pc' = "aborted"
    /\ UNCHANGED <<origin, text, dictArr, eI, eBytes, decUnchanged>>

DecodeApply ==
    LET s == DecodeIter(dictArr, bytes, maxOut, decState) IN
    /\ i' = s.i
    /\ out' = s.out
    /\ outUnits' = s.outUnits
    /\ dres' = s.res
    /\ pc' = IF s.res = Running THEN "decode" ELSE "done"
    /\ UNCHANGED <<origin, text, dictArr, eI, eBytes, bytes, maxOut, verifyVars, canonVars, wasmVars, engineVars>>

DecAscii ==
    /\ pc = "decode" /\ i < Len(bytes) /\ bytes[i + 1] <= 127
    /\ DecodeApply

DecDictRef ==
    /\ pc = "decode" /\ i < Len(bytes) /\ bytes[i + 1] = 128
    /\ DecodeApply

DecUtf16 ==
    /\ pc = "decode" /\ i < Len(bytes) /\ IsUtf16Marker(bytes[i + 1])
    /\ DecodeApply

DecInvalid ==
    /\ pc = "decode" /\ i < Len(bytes)
    /\ bytes[i + 1] > 128 /\ ~IsUtf16Marker(bytes[i + 1])
    /\ DecodeApply

DecReturn ==
    /\ pc = "decode" /\ ~(i < Len(bytes))
    /\ DecodeApply

Next ==
    \/ EncodeMatch
    \/ EncodeLiteral
    \/ EncodeReturn
    \/ EncodeAbort
    \/ DecAscii
    \/ DecDictRef
    \/ DecUtf16
    \/ DecInvalid
    \/ DecReturn

Spec == Init /\ [][Next]_vars


(***************************************************************************)
(* Properties of the codec.                                                *)
(***************************************************************************)
NoEmptyEntry == \A n \in 1..ArrLen(dictArr) : dictArr.v[n].v # <<>>

Roundtrips ==
    /\ pc # "aborted"
    /\ pc = "done" => dres = DecOk(text)

DecodeKinds ==
    {"invalid_byte", "truncated_sequence", "dict_index_oob",
     "dict_entry_invalid", "output_limit"}

DecodeStep == DecAscii \/ DecDictRef \/ DecUtf16 \/ DecInvalid \/ DecReturn

\* C2: scxq2DecodeUtf16 is total and fails closed: while it runs the next
\* iteration is always defined and consumes input, and what it returns is
\* either {ok: true, value: <string>} or {ok: false, kind} with kind one of
\* the five decode kinds and no value field.
C2_TotalFailClosed ==
    /\ [](pc = "decode" =>
            /\ dres = Running
            /\ i <= Len(bytes)
            /\ ENABLED DecodeStep)
    /\ [](pc = "done" =>
            \/ /\ dres.ok = TRUE
               /\ DOMAIN dres = {"ok", "value"}
               /\ \A n \in 1..Len(dres.value) : dres.value[n] \in 0..65535
            \/ /\ dres.ok = FALSE
               /\ dres.kind \in DecodeKinds
               /\ "value" \notin DOMAIN dres)
    /\ [][(pc = "decode" /\ pc' = "decode") => i' > i]_codecVars

\* Raw bytes, a dictionary with a non-string entry, and a failure after
\* some output had already been produced.
C2_Witness ==
    /\ origin = "raw" /\ pc = "done"
    /\ dres.ok = FALSE /\ dres.kind = "dict_entry_invalid"
    /\ out # <<>>

\* C6: the decoder returns ok only with at most maxOutputUnits code units,
\* and once the tokens decoded so far have produced more than maxOutputUnits
\* it has returned output_limit, whatever bytes follow.
C6_OutputLimit ==
    /\ outUnits = Len(out)
    /\ pc = "decode" => outUnits <= maxOut
    /\ (pc = "done" /\ dres.ok) => Len(dres.value) <= maxOut
    /\ outUnits > maxOut =>
          pc = "done" /\ dres.ok = FALSE /\ dres.kind = "output_limit"

\* The limit is exceeded by a dictionary entry while an invalid byte follows.
C6_Witness ==
    /\ pc = "done" /\ origin = "raw"
    /\ dres.ok = FALSE /\ dres.kind = "output_limit"
    /\ maxOut > 0 /\ outUnits = maxOut + 1
    /\ i < Len(bytes) /\ bytes[i + 1] = 130

\* C7: a token that starts with 0x80 or 0x81 at byte index i with fewer than
\* two bytes after it returns truncated_sequence with byte_offset i, for
\* every dictionary (the index range check is not reached).
C7_Truncated ==
    [][(/\ pc = "decode"
        /\ i < Len(bytes)
        /\ bytes[i + 1] \in {128, 129}
        /\ i + 2 >= Len(bytes))
       => (pc' = "done" /\ dres' = DecFail("truncated_sequence", i))]_codecVars

\* A dictionary reference cut short against an empty dictionary, where the
\* index check would have failed too.
C7_Witness ==
    /\ pc = "done" /\ dres = DecFail("truncated_sequence", i)
    /\ i > 0 /\ bytes[i + 1] = 128 /\ Len(bytes) = i + 2
    /\ ArrLen(dictArr) = 0

\* C8: a complete token 0x80 hi lo with j = (hi << 8) | lo returns
\* dict_index_oob whenever j >= len(dict), and output is appended only when
\* 0 <= j < len(dict), and then it is dict[j].
C8_IndexOob ==
    [][(/\ pc = "decode"
        /\ i < Len(bytes)
        /\ bytes[i + 1] = 128
        /\ i + 2 < Len(bytes))
       => LET j == bytes[i + 2] * 256 + bytes[i + 3] IN
          /\ j >= ArrLen(dictArr) =>
                /\ pc' = "done"
                /\ dres' = DecFailIndex("dict_index_oob", i, j)
                /\ out' = out
          /\ out' # out =>
                /\ 0 <= j /\ j < ArrLen(dictArr)
                /\ IsString(dictArr.v[j + 1])
                /\ out' = out \o dictArr.v[j + 1].v]_codecVars

\* The first index past the end of a non-empty dictionary.
C8_Witness ==
    /\ pc = "done" /\ dres.ok = FALSE /\ dres.kind = "dict_index_oob"
    /\ ArrLen(dictArr) > 0 /\ dres.index = ArrLen(dictArr)

(***************************************************************************)
(* The leftmost ill-formed token of a byte stream, found by splitting the  *)
(* stream into tokens from the left without regard to the output limit.    *)
(***************************************************************************)
TokenFault(dict, bs, p) ==
    LET b == bs[p + 1] IN
    IF b <= 127 THEN "none"
    ELSE IF b >= 130 THEN "invalid_byte"
    ELSE IF p + 2 >= Len(bs) THEN "truncated_sequence"
    ELSE IF b = 129 THEN "none"
    ELSE LET j == bs[p + 2] * 256 + bs[p + 3] IN
         IF j >= ArrLen(dict) THEN "dict_index_oob"
         ELSE IF ~IsString(dict.v[j + 1]) THEN "dict_entry_invalid"
         ELSE "none"

TokenSize(bs, p) == IF bs[p + 1] <= 127 THEN 1 ELSE 3

TokenUnits(dict, bs, p) ==
    IF bs[p + 1] = 128 THEN Len(dict.v[bs[p + 2] * 256 + bs[p + 3] + 1].v) ELSE 1

\* [pos, kind, units]: the position and kind of the leftmost ill-formed token
\* and the code units of the tokens before it; pos = -1 when every token is
\* well formed.
RECURSIVE Leftmost(_, _, _, _)
Leftmost(dict, bs, p, units) ==
    IF p >= Len(bs) THEN [pos |-> -1, kind |-> "none", units |-> units]
    ELSE IF TokenFault(dict, bs, p) # "none"
         THEN [pos |-> p, kind |-> TokenFault(dict, bs, p), units |-> units]
         ELSE Leftmost(dict, bs, p + TokenSize(bs, p), units + TokenUnits(dict, bs, p))

\* the bytes up to and including the ill-formed token at p
ThroughToken(bs, p) ==
    SubSeq(bs, 1, Min(Len(bs), p + (IF bs[p + 1] \in {128, 129} THEN 3 ELSE 1)))

\* C9 as claimed: the reported kind and byte_offset are always those of the
\* leftmost ill-formed token.
C9_LeftmostAlways ==
    pc = "done" =>
        LET f == Leftmost(dictArr, bytes, 0, 0) IN
        f.pos >= 0 =>
            /\ dres.ok = FALSE
            /\ dres.kind = f.kind
            /\ dres.byte_offset = f.pos

\* C9, amended: unless the tokens before it have already exceeded
\* maxOutputUnits (then output_limit is returned first), the decoder returns
\* the kind and byte_offset of the leftmost ill-formed token, an invalid byte
\* 0x82..0xFF is reported at its own position, and the bytes after the
\* ill-formed token do not change the result.
C9_LeftmostUnlessLimit ==
    pc = "done" =>
        LET f == Leftmost(dictArr, bytes, 0, 0) IN
        (f.pos >= 0 /\ f.units <= maxOut) =>
            /\ dres.ok = FALSE
            /\ dres.kind = f.kind
            /\ dres.byte_offset = f.pos
            /\ bytes[f.pos + 1] >= 130 =>
                  dres = DecFailByte(f.pos, bytes[f.pos + 1])
            /\ dres = scxq2DecodeUtf16(dictArr, ThroughToken(bytes, f.pos), maxOut)

\* An invalid byte after a decoded token and before further bytes.
C9_Witness ==
    /\ pc = "done" /\ origin = "raw"
    /\ dres.ok = FALSE /\ dres.kind = "invalid_byte"
    /\ dres.byte_offset > 0 /\ dres.byte_offset + 1 < Len(bytes)
    /\ Leftmost(dictArr, bytes, 0, 0).units <= maxOut


(***************************************************************************)
(* JSON values of a pack (dist/index.js, the verifier).                    *)
(* An object is the list of its <<key, value>> pairs in insertion order.   *)
(* A string is a UStr (code units), an SStr (a string the code only        *)
(* compares for equality) or a digest.                                     *)
(***************************************************************************)
JNull == [t |-> "null"]
JBool(b) == [t |-> "bool", v |-> b]
SStr(s) == [t |-> "str", v |-> s]
Obj(pairs) == [t |-> "obj", v |-> pairs]

\* !!x
Truthy(x) ==
    CASE x.t \in {"undef", "null"} -> FALSE
      [] x.t = "bool" -> x.v
      [] x.t = "num" -> x.v # 0
      [] x.t = "str" -> x.v # ""
      [] x.t = "ustr" -> x.v # <<>>
      [] OTHER -> TRUE

\* typeof x === "object"
IsObjectType(x) == x.t \in {"obj", "arr", "fill", "null"}

\* a === b: objects and arrays of a parsed pack are never the same reference
StrictEq(a, b) == a.t \notin {"obj", "arr", "fill"} /\ a = b

Keys(o) == IF o.t = "obj" THEN {o.v[n][1] : n \in DOMAIN o.v} ELSE {}

\* k in o
Has(o, k) == k \in Keys(o)

\* o[k]
Get(o, k) ==
    IF Has(o, k)
    THEN o.v[CHOOSE n \in DOMAIN o.v : o.v[n][1] = k][2]
    ELSE Undef

\* o[k] = x
Put(o, k, x) ==
    IF Has(o, k)
    THEN Obj([n \in DOMAIN o.v |-> IF o.v[n][1] = k THEN <<k, x>> ELSE o.v[n]])
    ELSE Obj(Append(o.v, <<k, x>>))

\* delete o[k]
Del(o, k) == Obj(SelectSeq(o.v, LAMBDA pr : pr[1] # k))

\* const o = { ...obj }; delete o[field]; return o
copyMinus(obj, field) == IF obj.t = "obj" THEN Del(obj, field) ELSE Obj(<<>>)

\* Object.keys(v).sort(): the keys that occur in packs, in the objects the
\* engine hashes and in the canon tests, in code-unit order
SortedKeys ==
    <<"@type", "@version", "a", "arr", "b", "b64", "block_sha256_canon",
      "blocks", "c", "created_utc", "dict", "dict_sha256_canon", "edges",
      "encoding", "engine", "extra", "flags", "lane_id", "max_dict", "min_len",
      "mode", "noPunct", "noStrings", "noWS", "ok", "original_bytes_utf8",
      "pack_sha256_canon", "proof", "roundtrip_sha256_utf8",
      "source_sha256_utf8", "y", "z">>

\* sortKeysDeep: arrays keep their order, objects get their keys sorted
RECURSIVE sortKeysDeep(_)
sortKeysDeep(x) ==
    CASE x.t = "arr" -> Arr([n \in DOMAIN x.v |-> sortKeysDeep(x.v[n])])
      [] x.t = "fill" -> Fill(x.n, sortKeysDeep(x.e))
      [] x.t = "obj" ->
            LET present == Keys(x)
                ks == SelectSeq(SortedKeys, LAMBDA k : k \in present) IN
            Obj([n \in DOMAIN ks |-> <<ks[n], sortKeysDeep(Get(x, ks[n]))>>])
      [] OTHER -> x

\* JSON.stringify of the tree as given, its keys in insertion order
canon_Unsorted(obj) == [json |-> obj]

\* JSON.stringify(sortKeysDeep(obj)): the JSON text of a value tree determines
\* the tree, key order included, so the text is represented by the sorted tree.
canon(obj) == [json |-> sortKeysDeep(obj)]

(***************************************************************************)
(* Hashing.  SHA-256 is taken to be collision-free: a digest is the string *)
(* that was hashed.                                                        *)
(***************************************************************************)
\* Buffer.from(s, "utf8") of a string of code units
RECURSIVE Utf8(_)
Utf8(u) ==
    IF u = <<>> THEN <<>>
    ELSE LET c == Head(u) IN
         IF c < 128 THEN <<c>> \o Utf8(Tail(u))
         ELSE IF c < 2048
         THEN <<192 + (c \div 64), 128 + (c % 64)>> \o Utf8(Tail(u))
         ELSE IF c >= 55296 /\ c <= 56319 /\ Len(u) >= 2
                 /\ u[2] >= 56320 /\ u[2] <= 57343
         THEN LET cp == 65536 + (c - 55296) * 1024 + (u[2] - 56320) IN
              <<240 + (cp \div 262144), 128 + ((cp \div 4096) % 64),
                128 + ((cp \div 64) % 64), 128 + (cp % 64)>>
              \o Utf8(Tail(Tail(u)))
         ELSE IF c >= 55296 /\ c <= 57343
         THEN <<239, 191, 189>> \o Utf8(Tail(u))
         ELSE <<224 + (c \div 4096), 128 + ((c \div 64) % 64), 128 + (c % 64)>>
              \o Utf8(Tail(u))

\* sha256HexUtf8(s) for a string of code units and for a canonical JSON text
sha256HexText(u) == [t |-> "sha", k |-> "utf8", of |-> Utf8(u)]
sha256HexCanon(c) == [t |-> "sha", k |-> "json", of |-> c.json]

(***************************************************************************)
(* Base64 (Buffer).                                                        *)
(***************************************************************************)
B64Char(n) ==
    IF n < 26 THEN 65 + n
    ELSE IF n < 52 THEN 97 + (n - 26)
    ELSE IF n < 62 THEN 48 + (n - 52)
    ELSE IF n = 62 THEN 43 ELSE 47

\* the 6-bit value of a base64 character, -1 for any other character
B64Val(c) ==
    IF c >= 65 /\ c <= 90 THEN c - 65
    ELSE IF c >= 97 /\ c <= 122 THEN c - 97 + 26
    ELSE IF c >= 48 /\ c <= 57 THEN c - 48 + 52
    ELSE IF c = 43 THEN 62
    ELSE IF c = 47 THEN 63
    ELSE -1

\* Buffer.from(arr).toString("base64")
RECURSIVE bytesToBase64(_)
bytesToBase64(bs) ==
    IF Len(bs) = 0 THEN <<>>
    ELSE IF Len(bs) = 1
    THEN <<B64Char(bs[1] \div 4), B64Char((bs[1] % 4) * 16), 61, 61>>
    ELSE IF Len(bs) = 2
    THEN <<B64Char(bs[1] \div 4),
           B64Char((bs[1] % 4) * 16 + bs[2] \div 16),
           B64Char((bs[2] % 16) * 4), 61>>
    ELSE <<B64Char(bs[1] \div 4),
           B64Char((bs[1] % 4) * 16 + bs[2] \div 16),
           B64Char((bs[2] % 16) * 4 + bs[3] \div 64),
           B64Char(bs[3] % 64)>> \o bytesToBase64(SubSeq(bs, 4, Len(bs)))

\* Buffer.from(b64, "base64") never throws: it decodes the base64 characters
\* before the first "=", four at a time; a last group of 2 or 3 characters
\* yields 1 or 2 bytes and a single left-over character yields none.
RECURSIVE B64Groups(_)
B64Groups(vs) ==
    IF Len(vs) < 2 THEN <<>>
    ELSE IF Len(vs) = 2
    THEN <<vs[1] * 4 + vs[2] \div 16>>
    ELSE IF Len(vs) = 3
    THEN <<vs[1] * 4 + vs[2] \div 16, (vs[2] % 16) * 16 + vs[3] \div 4>>
    ELSE <<vs[1] * 4 + vs[2] \div 16,
           (vs[2] % 16) * 16 + vs[3] \div 4,
           (vs[3] % 4) * 64 + vs[4]>> \o B64Groups(SubSeq(vs, 5, Len(vs)))

BufferFromBase64(u) ==
    LET stop == IF \E n \in 1..Len(u) : u[n] = 61
                THEN (CHOOSE n \in 1..Len(u) :
                        u[n] = 61 /\ \A k \in 1..(n - 1) : u[k] # 61) - 1
                ELSE Len(u)
        vals == SelectSeq([n \in 1..stop |-> B64Val(u[n])], LAMBDA x : x >= 0)
    IN B64Groups(vals)

NoBytes == [null |-> TRUE]

\* strictB64Decode: null unless b64 is a non-empty string over [A-Za-z0-9+/=]
strictB64Decode(b64) ==
    IF ~IsString(b64) \/ Len(b64.v) = 0 THEN NoBytes
    ELSE IF \E n \in 1..Len(b64.v) : B64Val(b64.v[n]) < 0 /\ b64.v[n] # 61
    THEN NoBytes
    ELSE [bytes |-> BufferFromBase64(b64.v)]

\* isoUtcLike: /^\d{4}-\d{2}-\d{2}T\d{2}:\d{2}:\d{2}(\.\d+)?Z$/
IsDigit(c) == c >= 48 /\ c <= 57
isoUtcLike(x) ==
    /\ x.t = "ustr"
    /\ Len(x.v) >= 20
    /\ \A n \in {1, 2, 3, 4, 6, 7, 9, 10, 12, 13, 15, 16, 18, 19} : IsDigit(x.v[n])
    /\ x.v[5] = 45 /\ x.v[8] = 45 /\ x.v[11] = 84
    /\ x.v[14] = 58 /\ x.v[17] = 58
    /\ x.v[Len(x.v)] = 90
    /\ Len(x.v) > 20 =>
          /\ x.v[20] = 46
          /\ Len(x.v) >= 22
          /\ \A n \in 21..(Len(x.v) - 1) : IsDigit(x.v[n])


(***************************************************************************)
(* scxq2PackVerify (dist/index.js).                                        *)
(***************************************************************************)
SCXQ2_DEFAULT_POLICY ==
    [requireRoundtrip |-> TRUE,
     requireProof |-> TRUE,
     maxDictEntries |-> 65535,
     maxDictEntryUnits |-> 1048576,
     maxBlocks |-> 1024,
     maxBlockB64Bytes |-> 67108864,
     maxOutputUnits |-> 134217728,
     allowEdges |-> TRUE,
     allowUnknownPackFields |-> TRUE,
     allowUnknownBlockFields |-> TRUE,
     allowedModes |-> {SStr("SCXQ2-DICT16-B64")},
     allowedEncodings |-> {SStr("SCXQ2-1")},
     failOnFirstError |-> TRUE]

KNOWN_PACK_FIELDS ==
    {"@type", "@version", "mode", "encoding", "created_utc",
     "dict", "blocks", "proof", "pack_sha256_canon"}

KNOWN_BLOCK_FIELDS ==
    {"@type", "@version", "mode", "encoding",
     "lane_id", "source_sha256_utf8", "dict_sha256_canon",
     "b64", "block_sha256_canon", "edges", "ops",
     "created_utc", "original_bytes_utf8"}

hasUnknownFields(obj, knownSet) == \E k \in Keys(obj) : k \notin knownSet

\* P.allowedModes.includes(x)
Includes(list, x) == \E y \in list : StrictEq(x, y)

NoErr == [none |-> TRUE]

err(code, phase, message, at) ==
    [type |-> "scxq2.error", version |-> "1.0.0", code |-> code,
     phase |-> phase, severity |-> "fatal", message |-> message, at |-> at]

fail(e) ==
    [type |-> "scxq2.verify.result", version |-> "1.0.0", ok |-> FALSE, error |-> e]

ok(packSha, dictSha, blocks) ==
    [type |-> "scxq2.verify.result", version |-> "1.0.0", ok |-> TRUE,
     pack_sha256_canon |-> packSha, dict_sha256_canon |-> dictSha,
     blocks |-> blocks]

NoAt == [none |-> TRUE]
AtField(f) == [field |-> f]
AtIndex(f, k) == [field |-> f, index |-> k]

\* a loop that runs over every index and returns what its last failing index
\* gave
FirstErr_Last(errs) ==
    IF \E n \in DOMAIN errs : errs[n] # NoErr
    THEN errs[CHOOSE n \in DOMAIN errs :
                 errs[n] # NoErr /\ \A h \in DOMAIN errs : h > n => errs[h] = NoErr]
    ELSE NoErr

\* a loop that returns at its first failing index: errs[n] is what the body
\* returns for index n - 1, NoErr when it passes
FirstErr(errs) ==
    IF \E n \in DOMAIN errs : errs[n] # NoErr
    THEN errs[CHOOSE n \in DOMAIN errs :
                 errs[n] # NoErr /\ \A h \in 1..(n - 1) : errs[h] = NoErr]
    ELSE NoErr

\* STEP 1 with the test of pack.blocks moved before the test of pack.dict
PackStructure_BlocksFirst(P, pack) ==
    IF ~Truthy(pack) \/ ~IsObjectType(pack)
    THEN err("scxq2.error.pack_missing", "pack", "pack missing", NoAt)
    ELSE IF ~StrictEq(Get(pack, "@type"), SStr("scxq2.pack"))
    THEN err("scxq2.error.pack_type_invalid", "pack", "bad @type", AtField("@type"))
    ELSE IF ~StrictEq(Get(pack, "@version"), SStr("1.0.0"))
    THEN err("scxq2.error.pack_version_unsupported", "pack",
             "unsupported @version", AtField("@version"))
    ELSE IF ~Includes(P.allowedModes, Get(pack, "mode"))
    THEN err("scxq2.error.pack_mode_mismatch", "pack", "mode not allowed",
             AtField("mode"))
    ELSE IF ~Includes(P.allowedEncodings, Get(pack, "encoding"))
    THEN err("scxq2.error.pack_encoding_mismatch", "pack",
             "encoding not allowed", AtField("encoding"))
    ELSE IF P.allowUnknownPackFields = FALSE /\ hasUnknownFields(pack, KNOWN_PACK_FIELDS)
    THEN err("scxq2.error.pack_field_forbidden", "pack", "unknown pack field", NoAt)
    ELSE IF Has(pack, "created_utc") /\ ~isoUtcLike(Get(pack, "created_utc"))
    THEN err("scxq2.error.pack_created_utc_invalid", "pack",
             "invalid created_utc", AtField("created_utc"))
    ELSE IF ~IsArray(Get(pack, "blocks")) \/ ArrLen(Get(pack, "blocks")) < 1
    THEN err("scxq2.error.pack_blocks_missing", "pack", "blocks missing/empty",
             AtField("blocks"))
    ELSE IF ~Truthy(Get(pack, "dict"))
    THEN err("scxq2.error.dict_missing", "dict", "dict missing", AtField("dict"))
    ELSE IF ArrLen(Get(pack, "blocks")) > P.maxBlocks
    THEN err("scxq2.error.decode_input_limit", "pack", "too many blocks",
             AtField("blocks"))
    ELSE IF P.requireProof /\ ~Truthy(Get(pack, "proof"))
    THEN err("scxq2.error.pack_proof_missing", "pack", "proof required",
             AtField("proof"))
    ELSE NoErr

\* STEP 1 - pack structure
PackStructure(P, pack) ==
    IF ~Truthy(pack) \/ ~IsObjectType(pack)
    THEN err("scxq2.error.pack_missing", "pack", "pack missing", NoAt)
    ELSE IF ~StrictEq(Get(pack, "@type"), SStr("scxq2.pack"))
    THEN err("scxq2.error.pack_type_invalid", "pack", "bad @type", AtField("@type"))
    ELSE IF ~StrictEq(Get(pack, "@version"), SStr("1.0.0"))
    THEN err("scxq2.error.pack_version_unsupported", "pack",
             "unsupported @version", AtField("@version"))
    ELSE IF ~Includes(P.allowedModes, Get(pack, "mode"))
    THEN err("scxq2.error.pack_mode_mismatch", "pack", "mode not allowed",
             AtField("mode"))
    ELSE IF ~Includes(P.allowedEncodings, Get(pack, "encoding"))
    THEN err("scxq2.error.pack_encoding_mismatch", "pack",
             "encoding not allowed", AtField("encoding"))
    ELSE IF P.allowUnknownPackFields = FALSE /\ hasUnknownFields(pack, KNOWN_PACK_FIELDS)
    THEN err("scxq2.error.pack_field_forbidden", "pack", "unknown pack field", NoAt)
    ELSE IF Has(pack, "created_utc") /\ ~isoUtcLike(Get(pack, "created_utc"))
    THEN err("scxq2.error.pack_created_utc_invalid", "pack",
             "invalid created_utc", AtField("created_utc"))
    ELSE IF ~Truthy(Get(pack, "dict"))
    THEN err("scxq2.error.dict_missing", "dict", "dict missing", AtField("dict"))
    ELSE IF ~IsArray(Get(pack, "blocks")) \/ ArrLen(Get(pack, "blocks")) < 1
    THEN err("scxq2.error.pack_blocks_missing", "pack", "blocks missing/empty",
             AtField("blocks"))
    ELSE IF ArrLen(Get(pack, "blocks")) > P.maxBlocks
    THEN err("scxq2.error.decode_input_limit", "pack", "too many blocks",
             AtField("blocks"))
    ELSE IF P.requireProof /\ ~Truthy(Get(pack, "proof"))
    THEN err("scxq2.error.pack_proof_missing", "pack", "proof required",
             AtField("proof"))
    ELSE NoErr

\* the checks of one dictionary entry
DictEntryErr(P, e, j) ==
    IF ~IsString(e)
    THEN err("scxq2.error.dict_entry_type_invalid", "dict",
             "dict entry not string", AtIndex("dict.dict", j))
    ELSE IF Len(e.v) > P.maxDictEntryUnits
    THEN err("scxq2.error.dict_entry_exceeds_limit", "dict",
             "dict entry too long", AtIndex("dict.dict", j))
    ELSE NoErr

\* for (let j = 0; j < dict.dict.length; j++): the entries of Array(n).fill(e)
\* are all e, so the first failing index of such an array is 0
DictEntriesErr(P, arr) ==
    IF arr.t = "fill"
    THEN (IF arr.n > 0 THEN DictEntryErr(P, arr.e, 0) ELSE NoErr)
    ELSE FirstErr([n \in 1..Len(arr.v) |-> DictEntryErr(P, arr.v[n], n - 1)])

\* STEP 2 - dict structure
DictStructure(P, pack) ==
    LET dict == Get(pack, "dict") IN
    IF ~Truthy(dict) \/ ~IsObjectType(dict)
    THEN err("scxq2.error.dict_type_invalid", "dict", "dict not object",
             AtField("dict"))
    ELSE IF ~StrictEq(Get(dict, "@type"), SStr("scxq2.dict"))
    THEN err("scxq2.error.dict_type_invalid", "dict", "bad dict @type",
             AtField("dict.@type"))
    ELSE IF ~StrictEq(Get(dict, "@version"), SStr("1.0.0"))
    THEN err("scxq2.error.dict_version_unsupported", "dict",
             "unsupported dict @version", AtField("dict.@version"))
    ELSE IF ~Includes(P.allowedModes, Get(dict, "mode"))
    THEN err("scxq2.error.pack_mode_mismatch", "dict", "dict mode mismatch",
             AtField("dict.mode"))
    ELSE IF ~Includes(P.allowedEncodings, Get(dict, "encoding"))
    THEN err("scxq2.error.pack_encoding_mismatch", "dict",
             "dict encoding mismatch", AtField("dict.encoding"))
    ELSE IF ~IsArray(Get(dict, "dict"))
    THEN err("scxq2.error.dict_entry_type_invalid", "dict",
             "dict.dict must be array", AtField("dict.dict"))
    ELSE IF ArrLen(Get(dict, "dict")) > P.maxDictEntries
    THEN err("scxq2.error.dict_size_exceeds_limit", "dict", "dict too large",
             AtField("dict.dict"))
    ELSE LET entryErr == DictEntriesErr(P, Get(dict, "dict")) IN
    IF entryErr # NoErr
    THEN entryErr
    ELSE IF ~Truthy(Get(dict, "dict_sha256_canon"))
    THEN err("scxq2.error.dict_sha_missing", "canon", "dict sha missing",
             AtField("dict.dict_sha256_canon"))
    ELSE NoErr

\* STEP 3 - the checks of block k
BlockStructureAt(P, pack, k) ==
    LET b == ArrAt(Get(pack, "blocks"), k)
        dictSha == Get(Get(pack, "dict"), "dict_sha256_canon") IN
    IF ~Truthy(b) \/ ~IsObjectType(b)
          \/ ~StrictEq(Get(b, "@type"), SStr("scxq2.block"))
    THEN err("scxq2.error.block_type_invalid", "block", "bad block @type",
             AtIndex("blocks", k))
    ELSE IF ~Includes(P.allowedModes, Get(b, "mode"))
    THEN err("scxq2.error.block_mode_mismatch", "block", "block mode mismatch",
             AtIndex("blocks.mode", k))
    ELSE IF ~Includes(P.allowedEncodings, Get(b, "encoding"))
    THEN err("scxq2.error.block_encoding_mismatch", "block",
             "block encoding mismatch", AtIndex("blocks.encoding", k))
    ELSE IF ~IsString(Get(b, "b64")) \/ Len(Get(b, "b64").v) = 0
    THEN err("scxq2.error.block_b64_missing", "block", "b64 missing",
             AtIndex("blocks.b64", k))
    ELSE IF ~Truthy(Get(b, "dict_sha256_canon"))
    THEN err("scxq2.error.block_dict_link_missing", "block", "missing dict link",
             AtIndex("blocks.dict_sha256_canon", k))
    ELSE IF ~StrictEq(Get(b, "dict_sha256_canon"), dictSha)
    THEN err("scxq2.error.block_dict_link_mismatch", "block",
             "dict link mismatch", AtIndex("blocks.dict_sha256_canon", k))
    ELSE IF ~Truthy(Get(b, "block_sha256_canon"))
    THEN err("scxq2.error.block_sha_missing", "canon", "block sha missing",
             AtIndex("blocks.block_sha256_canon", k))
    ELSE IF P.requireRoundtrip /\ ~Truthy(Get(b, "source_sha256_utf8"))
    THEN err("scxq2.error.block_source_sha_missing", "block",
             "source sha required", AtIndex("blocks.source_sha256_utf8", k))
    ELSE IF P.allowUnknownBlockFields = FALSE /\ hasUnknownFields(b, KNOWN_BLOCK_FIELDS)
    THEN err("scxq2.error.pack_field_forbidden", "block", "unknown block field",
             AtIndex("blocks", k))
    ELSE IF P.allowEdges = FALSE /\ Has(b, "edges")
    THEN err("scxq2.error.policy_disabled_feature", "block", "edges not allowed",
             AtIndex("blocks.edges", k))
    ELSE NoErr

\* STEP 3 - block structure
BlockStructure(P, pack) ==
    FirstErr([n \in 1..ArrLen(Get(pack, "blocks")) |->
                 BlockStructureAt(P, pack, n - 1)])

\* a hash that leaves the "extra" field out as well
RecomputedSha_SkipsExtra(obj, field) ==
    sha256HexCanon(canon(copyMinus(copyMinus(obj, field), "extra")))

\* the recomputed hash of an object without its own hash field
RecomputedSha(obj, field) == sha256HexCanon(canon(copyMinus(obj, field)))

BlockShaAt(pack, k) ==
    LET b == ArrAt(Get(pack, "blocks"), k) IN
    IF ~StrictEq(RecomputedSha(b, "block_sha256_canon"), Get(b, "block_sha256_canon"))
    THEN err("scxq2.error.block_sha_mismatch", "canon", "block sha mismatch",
             AtIndex("blocks.block_sha256_canon", k))
    ELSE NoErr

\* STEP 4 - canonical hash verification
CanonicalHashes_DictFirst(P, pack) ==
    LET dict == Get(pack, "dict") IN
    IF ~Truthy(Get(pack, "pack_sha256_canon"))
    THEN err("scxq2.error.pack_sha_missing", "canon", "pack sha missing",
             AtField("pack_sha256_canon"))
    ELSE IF ~StrictEq(RecomputedSha(dict, "dict_sha256_canon"),
                      Get(dict, "dict_sha256_canon"))
    THEN err("scxq2.error.dict_sha_mismatch", "canon", "dict sha mismatch",
             AtField("dict.dict_sha256_canon"))
    ELSE IF ~StrictEq(RecomputedSha(pack, "pack_sha256_canon"),
                      Get(pack, "pack_sha256_canon"))
    THEN err("scxq2.error.pack_sha_mismatch", "canon", "pack sha mismatch",
             AtField("pack_sha256_canon"))
    ELSE FirstErr([n \in 1..ArrLen(Get(pack, "blocks")) |-> BlockShaAt(pack, n - 1)])
CanonicalHashes(P, pack) ==
    LET dict == Get(pack, "dict") IN
    IF ~Truthy(Get(pack, "pack_sha256_canon"))
    THEN err("scxq2.error.pack_sha_missing", "canon", "pack sha missing",
             AtField("pack_sha256_canon"))
    ELSE IF ~StrictEq(RecomputedSha(pack, "pack_sha256_canon"),
                      Get(pack, "pack_sha256_canon"))
    THEN err("scxq2.error.pack_sha_mismatch", "canon", "pack sha mismatch",
             AtField("pack_sha256_canon"))
    ELSE IF ~StrictEq(RecomputedSha(dict, "dict_sha256_canon"),
                      Get(dict, "dict_sha256_canon"))
    THEN err("scxq2.error.dict_sha_mismatch", "canon", "dict sha mismatch",
             AtField("dict.dict_sha256_canon"))
    ELSE FirstErr([n \in 1..ArrLen(Get(pack, "blocks")) |-> BlockShaAt(pack, n - 1)])

\* the decoder's kind as the code, without prefix
DecodeCode_Kind(kind) == kind

DecodeCode(kind) ==
    CASE kind = "invalid_byte" -> "scxq2.error.decode_invalid_byte"
      [] kind = "truncated_sequence" -> "scxq2.error.decode_truncated_sequence"
      [] kind = "dict_index_oob" -> "scxq2.error.decode_dict_index_oob"
      [] kind = "dict_entry_invalid" -> "scxq2.error.decode_dict_entry_invalid"
      [] kind = "output_limit" -> "scxq2.error.decode_output_limit"
      [] OTHER -> "scxq2.error.decode_internal"

DecodeMessage(kind) ==
    CASE kind = "invalid_byte" -> "invalid byte"
      [] kind = "truncated_sequence" -> "truncated sequence"
      [] kind = "dict_index_oob" -> "dict index out of bounds"
      [] kind = "dict_entry_invalid" -> "dict entry invalid"
      [] kind = "output_limit" -> "output limit exceeded"
      [] OTHER -> "decode internal error"

\* lane_id ?? undefined
LaneOrUndef(x) == IF x.t = "null" THEN Undef ELSE x

mapDecodeErr(de, lane_id, index) ==
    err(DecodeCode(de.kind), "decode", DecodeMessage(de.kind),
        [lane_id |-> LaneOrUndef(lane_id), index |-> index,
         byte_offset |-> de.byte_offset])

\* STEP 5 - block k: base64, byte limit, decode law, roundtrip hash
DecodeBlockAt_NoRoundtrip(P, pack, k) ==
    LET b == ArrAt(Get(pack, "blocks"), k)
        dict == Get(pack, "dict")
        dec64 == strictB64Decode(Get(b, "b64")) IN
    IF dec64 = NoBytes
    THEN err("scxq2.error.block_b64_invalid", "block", "invalid base64",
             AtIndex("blocks.b64", k))
    ELSE IF Len(dec64.bytes) > P.maxBlockB64Bytes
    THEN err("scxq2.error.decode_input_limit", "decode",
             "block bytes exceed limit", AtIndex("blocks.b64", k))
    ELSE LET dec == scxq2DecodeUtf16(Get(dict, "dict"), dec64.bytes, P.maxOutputUnits) IN
         IF ~dec.ok
         THEN mapDecodeErr(dec, Get(b, "lane_id"), k)
         ELSE NoErr
DecodeBlockAt(P, pack, k) ==
    LET b == ArrAt(Get(pack, "blocks"), k)
        dict == Get(pack, "dict")
        dec64 == strictB64Decode(Get(b, "b64")) IN
    IF dec64 = NoBytes
    THEN err("scxq2.error.block_b64_invalid", "block", "invalid base64",
             AtIndex("blocks.b64", k))
    ELSE IF Len(dec64.bytes) > P.maxBlockB64Bytes
    THEN err("scxq2.error.decode_input_limit", "decode",
             "block bytes exceed limit", AtIndex("blocks.b64", k))
    ELSE LET dec == scxq2DecodeUtf16(Get(dict, "dict"), dec64.bytes, P.maxOutputUnits) IN
         IF ~dec.ok
         THEN mapDecodeErr(dec, Get(b, "lane_id"), k)
         ELSE IF P.requireRoundtrip
                 /\ ~StrictEq(sha256HexText(dec.value), Get(b, "source_sha256_utf8"))
         THEN err("scxq2.error.proof_roundtrip_sha_mismatch", "proof",
                  "roundtrip sha mismatch",
                  [lane_id |-> Get(b, "lane_id"), index |-> k])
         ELSE NoErr

\* STEP 5 - base64 decode + decode law + roundtrip
DecodeBlocks(P, pack) ==
    FirstErr([n \in 1..ArrLen(Get(pack, "blocks")) |-> DecodeBlockAt(P, pack, n - 1)])

ProofWitnessFields ==
    <<"engine", "source_sha256_utf8", "dict_sha256_canon",
      "block_sha256_canon", "roundtrip_sha256_utf8">>

ProofWitnessAt(proof, n) ==
    IF ~Truthy(Get(proof, ProofWitnessFields[n + 1]))
    THEN err("scxq2.error.proof_witness_missing", "proof",
             "missing proof witness",
             AtField(<<"proof", ProofWitnessFields[n + 1]>>))
    ELSE NoErr

\* STEP 6 - proof object
ProofObject(P, pack) ==
    LET proof == Get(pack, "proof") IN
    IF ~P.requireProof THEN NoErr
    ELSE IF ~Truthy(proof) \/ ~IsObjectType(proof)
    THEN err("scxq2.error.proof_type_invalid", "proof", "proof invalid",
             AtField("proof"))
    ELSE IF ~StrictEq(Get(proof, "@type"), SStr("cc.proof"))
    THEN err("scxq2.error.proof_type_invalid", "proof", "bad proof @type",
             AtField("proof.@type"))
    ELSE IF ~StrictEq(Get(proof, "@version"), SStr("1.0.0"))
    THEN err("scxq2.error.proof_version_unsupported", "proof",
             "unsupported proof version", AtField("proof.@version"))
    ELSE IF ~StrictEq(Get(proof, "ok"), JBool(TRUE))
    THEN err("scxq2.error.proof_ok_false", "proof", "proof ok false",
             AtField("proof.ok"))
    ELSE FirstErr([n \in 1..Len(ProofWitnessFields) |-> ProofWitnessAt(proof, n - 1)])

\* The check of step n of the function body.
StepErr(n, P, pack) ==
    CASE n = 1 -> PackStructure(P, pack)
      [] n = 2 -> DictStructure(P, pack)
      [] n = 3 -> BlockStructure(P, pack)
      [] n = 4 -> CanonicalHashes(P, pack)
      [] n = 5 -> DecodeBlocks(P, pack)
      [] n = 6 -> ProofObject(P, pack)

\* The order in which the function body runs its steps.
StepOrder_HashesFirst == <<1, 2, 4, 3, 5, 6>>
StepOrder == <<1, 2, 3, 4, 5, 6>>

\* The steps from position pos of StepOrder on: the error of the first step
\* that returns a failure, NoErr when every step passes.
RECURSIVE RunSteps(_, _, _)
RunSteps(pos, P, pack) ==
    IF pos > Len(StepOrder) THEN NoErr
    ELSE LET e == StepErr(StepOrder[pos], P, pack) IN
         IF e # NoErr THEN e ELSE RunSteps(pos + 1, P, pack)

scxq2PackVerify(pack, P) ==
    LET e == RunSteps(1, P, pack) IN
    IF e # NoErr THEN fail(e)
    ELSE ok(Get(pack, "pack_sha256_canon"),
            Get(Get(pack, "dict"), "dict_sha256_canon"),
            ArrLen(Get(pack, "blocks")))

(***************************************************************************)
(* The packs handed to the verifier: the packs of test/fuzz_decode.test.mjs*)
(* and a pack whose hashes are the ones the identity rule prescribes.      *)
(***************************************************************************)
ModeName == SStr("SCXQ2-DICT16-B64")
EncodingName == SStr("SCXQ2-1")

\* "2026-01-03T00:00:00Z"
TestCreatedUtc ==
    UStr(<<50, 48, 50, 54, 45, 48, 49, 45, 48, 51, 84,
           48, 48, 58, 48, 48, 58, 48, 48, 90>>)

\* the whole scan loop of encodeSCXQ2 and its bytesToBase64(bytes)
RECURSIVE EncodeRun(_, _, _)
EncodeRun(txt, dict, e) ==
    IF ~(e.i < Len(txt)) THEN e.bytes
    ELSE EncodeRun(txt, dict, EncodeIter(txt, dict, e))

encodeSCXQ2(txt, dict) ==
    [b64 |-> UStr(bytesToBase64(EncodeRun(txt, dict.v, [i |-> 0, bytes |-> <<>>])))]

TestDict(entries, dictSha) ==
    Obj(<< <<"@type", SStr("scxq2.dict")>>,
           <<"@version", SStr("1.0.0")>>,
           <<"mode", ModeName>>,
           <<"encoding", EncodingName>>,
           <<"source_sha256_utf8", SStr("00")>>,
           <<"dict", entries>>,
           <<"dict_sha256_canon", dictSha>> >>)

TestBlock(lane, srcSha, dictSha, b64, blockSha) ==
    Obj(<< <<"@type", SStr("scxq2.block")>>,
           <<"@version", SStr("1.0.0")>>,
           <<"mode", ModeName>>,
           <<"encoding", EncodingName>>,
           <<"lane_id", lane>>,
           <<"source_sha256_utf8", srcSha>>,
           <<"dict_sha256_canon", dictSha>>,
           <<"b64", b64>>,
           <<"block_sha256_canon", blockSha>> >>)

TestProof ==
    Obj(<< <<"@type", SStr("cc.proof")>>,
           <<"@version", SStr("1.0.0")>>,
           <<"engine", SStr("asx://cc/engine/scxq2.v1")>>,
           <<"source_sha256_utf8", SStr("00")>>,
           <<"dict_sha256_canon", SStr("00")>>,
           <<"block_sha256_canon", SStr("00")>>,
           <<"roundtrip_sha256_utf8", SStr("00")>>,
           <<"ok", JBool(TRUE)>> >>)

TestPack(dict, blocks, packSha) ==
    Obj(<< <<"@type", SStr("scxq2.pack")>>,
           <<"@version", SStr("1.0.0")>>,
           <<"mode", ModeName>>,
           <<"encoding", EncodingName>>,
           <<"created_utc", TestCreatedUtc>>,
           <<"dict", dict>>,
           <<"blocks", blocks>>,
           <<"proof", TestProof>>,
           <<"pack_sha256_canon", packSha>> >>)

\* "Verifier: rejects mutated pack_sha256_canon": dict ["a"], one block of the
\* byte 0, every hash "00", pack hash "deadbeef"
HashTestPack ==
    TestPack(TestDict(Arr(<<UStr(<<97>>)>>), SStr("00")),
             Arr(<<TestBlock(SStr("x"), SStr("00"), SStr("00"),
                             UStr(bytesToBase64(<<0>>)), SStr("00"))>>),
             SStr("deadbeef"))

\* "Verifier: rejects dict size exceeding limit": Array(65536).fill("x"), a
\* block "AA==", hashes "test", no created_utc, no proof, no pack hash
DictLimitTestPack ==
    Obj(<< <<"@type", SStr("scxq2.pack")>>,
           <<"@version", SStr("1.0.0")>>,
           <<"mode", ModeName>>,
           <<"encoding", EncodingName>>,
           <<"dict", Del(TestDict(Fill(SCXQ2_DEFAULT_POLICY.maxDictEntries + 1,
                                       UStr(<<120>>)),
                                  SStr("test")),
                         "source_sha256_utf8")>>,
           <<"blocks",
             Arr(<<Obj(<< <<"@type", SStr("scxq2.block")>>,
                          <<"@version", SStr("1.0.0")>>,
                          <<"mode", ModeName>>,
                          <<"encoding", EncodingName>>,
                          <<"b64", UStr(<<65, 65, 61, 61>>)>>,
                          <<"dict_sha256_canon", SStr("test")>>,
                          <<"block_sha256_canon", SStr("test")>> >>)>>)>> >>)

\* "Verifier: respects allowEdges=false policy": an empty dictionary, one
\* block "AA==" with edges [[0, 1]] and no source_sha256_utf8, hashes "test",
\* a proof of three fields
EdgesTestPack ==
    Obj(<< <<"@type", SStr("scxq2.pack")>>,
           <<"@version", SStr("1.0.0")>>,
           <<"mode", ModeName>>,
           <<"encoding", EncodingName>>,
           <<"dict", Del(TestDict(Arr(<<>>), SStr("test")), "source_sha256_utf8")>>,
           <<"blocks",
             Arr(<<Obj(<< <<"@type", SStr("scxq2.block")>>,
                          <<"@version", SStr("1.0.0")>>,
                          <<"mode", ModeName>>,
                          <<"encoding", EncodingName>>,
                          <<"b64", UStr(<<65, 65, 61, 61>>)>>,
                          <<"dict_sha256_canon", SStr("test")>>,
                          <<"block_sha256_canon", SStr("test")>>,
                          <<"edges", Arr(<<Arr(<<JNum(0), JNum(1)>>)>>)>> >>)>>)>>,
           <<"proof", Obj(<< <<"@type", SStr("cc.proof")>>,
                             <<"@version", SStr("1.0.0")>>,
                             <<"ok", JBool(TRUE)>> >>)>>,
           <<"pack_sha256_canon", SStr("test")>> >>)

\* obj[field] = sha256HexUtf8(canon(strip(obj, [field])))
SealObj(obj, field) == Put(obj, field, RecomputedSha(obj, field))

\* every block gets its hash over its present content
SealBlocksOf(pack) ==
    LET bs == Get(pack, "blocks") IN
    Put(pack, "blocks",
        Arr([n \in DOMAIN bs.v |-> SealObj(bs.v[n], "block_sha256_canon")]))

\* the dictionary gets its hash and every block the link to it
SealDictOf(pack) ==
    LET d == SealObj(Get(pack, "dict"), "dict_sha256_canon")
        bs == Get(pack, "blocks") IN
    Put(Put(pack, "dict", d), "blocks",
        Arr([n \in DOMAIN bs.v |->
                Put(bs.v[n], "dict_sha256_canon", Get(d, "dict_sha256_canon"))]))

\* A pack of two lanes over the dictionary ["AB"] with the hashes a producer
\* computes: source hashes of the texts, then dict, block and pack hash.
LaneTexts == <<<<65, 66, 300>>, <<66>>>>
LaneNames == <<SStr("x"), SStr("y")>>

SealedPack ==
    LET entries == Arr(<<UStr(<<65, 66>>)>>)
        blocks == Arr([n \in DOMAIN LaneTexts |->
                          TestBlock(LaneNames[n], sha256HexText(LaneTexts[n]),
                                    SStr("00"),
                                    encodeSCXQ2(LaneTexts[n], entries).b64,
                                    SStr("00"))])
        raw == TestPack(TestDict(entries, SStr("00")), blocks, SStr("00"))
    IN SealObj(SealBlocksOf(SealDictOf(raw)), "pack_sha256_canon")

\* "Verifier: rejects missing dict": the four header fields and nothing else
MissingDictTestPack ==
    Obj(<< <<"@type", SStr("scxq2.pack")>>,
           <<"@version", SStr("1.0.0")>>,
           <<"mode", ModeName>>,
           <<"encoding", EncodingName>> >>)

\* "Verifier: rejects missing blocks": the header fields and an empty
\* dictionary without source_sha256_utf8
MissingBlocksTestPack ==
    Put(MissingDictTestPack, "dict",
        Del(TestDict(Arr(<<>>), SStr("test")), "source_sha256_utf8"))

BasePacks ==
    {JNull, HashTestPack, DictLimitTestPack, EdgesTestPack, SealedPack,
     MissingDictTestPack, MissingBlocksTestPack}

\* { ...SCXQ2_DEFAULT_POLICY, ...opts } for the opts a caller passes
Policies ==
    {SCXQ2_DEFAULT_POLICY,
     [SCXQ2_DEFAULT_POLICY EXCEPT !.requireRoundtrip = FALSE],
     [SCXQ2_DEFAULT_POLICY EXCEPT !.requireProof = FALSE],
     [SCXQ2_DEFAULT_POLICY EXCEPT !.allowEdges = FALSE],
     [SCXQ2_DEFAULT_POLICY EXCEPT !.allowUnknownPackFields = FALSE],
     [SCXQ2_DEFAULT_POLICY EXCEPT !.allowUnknownBlockFields = FALSE],
     [SCXQ2_DEFAULT_POLICY EXCEPT !.maxDictEntries = 65536],
     [SCXQ2_DEFAULT_POLICY EXCEPT !.maxBlocks = 1],
     [SCXQ2_DEFAULT_POLICY EXCEPT !.maxDictEntryUnits = 1],
     [SCXQ2_DEFAULT_POLICY EXCEPT !.maxBlockB64Bytes = 1],
     [SCXQ2_DEFAULT_POLICY EXCEPT !.maxOutputUnits = 1]}

(***************************************************************************)
(* Changes to a pack between its production and its verification.  A       *)
(* change is <<field, value>>; the value undefined deletes the field.      *)
(***************************************************************************)
MaxEdits == 1

SetField(o, f, x) == IF x = Undef THEN Del(o, f) ELSE Put(o, f, x)

PackEdits ==
    {<<"@type", SStr("wrong")>>,
     <<"@version", SStr("2.0.0")>>,
     <<"mode", SStr("other")>>,
     <<"encoding", SStr("other")>>,
     <<"extra", JNum(1)>>,
     <<"created_utc", UStr(<<50, 48, 50, 54>>)>>,
     <<"created_utc", Undef>>,
     <<"dict", Undef>>,
     <<"dict", JNum(7)>>,
     <<"blocks", Arr(<<>>)>>,
     <<"blocks", Arr(<<JNull>>)>>,
     <<"proof", Undef>>,
     <<"proof", JNum(1)>>,
     <<"pack_sha256_canon", Undef>>,
     <<"pack_sha256_canon", UStr(<<>>)>>,
     <<"pack_sha256_canon", SStr("deadbeef")>>}

DictEdits ==
    {<<"@type", SStr("wrong")>>,
     <<"@version", SStr("2.0.0")>>,
     <<"mode", SStr("other")>>,
     <<"encoding", SStr("other")>>,
     <<"dict", JNum(7)>>,
     <<"dict", Arr(<<>>)>>,
     <<"dict", Arr(<<UStr(<<65, 66>>), JNum(7)>>)>>,
     <<"dict", Arr(<<UStr(<<65, 66>>), UStr(<<66>>)>>)>>,
     <<"dict", Fill(SCXQ2_DEFAULT_POLICY.maxDictEntries, UStr(<<120>>))>>,
     <<"dict", Fill(SCXQ2_DEFAULT_POLICY.maxDictEntries + 1, UStr(<<65, 66>>))>>,
     <<"dict_sha256_canon", Undef>>,
     <<"dict_sha256_canon", SStr("11")>>}

BlockEdits ==
    {<<"@type", SStr("wrong")>>,
     <<"mode", SStr("other")>>,
     <<"encoding", SStr("other")>>,
     <<"b64", Undef>>,
     <<"b64", UStr(<<33>>)>>,
     <<"b64", UStr(bytesToBase64(<<130>>))>>,
     <<"b64", UStr(bytesToBase64(<<128, 0>>))>>,
     <<"b64", UStr(bytesToBase64(<<128, 0, 1>>))>>,
     <<"b64", UStr(bytesToBase64(<<65>>))>>,
     <<"b64", UStr(<<81, 103>>)>>,
     <<"b64", UStr(<<81, 61, 103, 61>>)>>,
     <<"b64", UStr(<<81, 103, 61, 61, 61>>)>>,
     <<"dict_sha256_canon", Undef>>,
     <<"dict_sha256_canon", SStr("11")>>,
     <<"block_sha256_canon", Undef>>,
     <<"block_sha256_canon", SStr("11")>>,
     <<"source_sha256_utf8", Undef>>,
     <<"source_sha256_utf8", SStr("11")>>,
     <<"extra", JNum(1)>>,
     <<"edges", Arr(<<>>)>>}

\* the changes that are made to every block at once
EveryBlockEdits ==
    {<<"@type", SStr("wrong")>>,
     <<"b64", UStr(bytesToBase64(<<65>>))>>,
     <<"source_sha256_utf8", SStr("11")>>,
     <<"extra", JNum(1)>>}

ProofEdits ==
    {<<"@type", SStr("wrong")>>,
     <<"@version", SStr("2.0.0")>>,
     <<"ok", JBool(FALSE)>>,
     <<"engine", Undef>>,
     <<"roundtrip_sha256_utf8", Undef>>,
     <<"roundtrip_sha256_utf8", SStr("11")>>}

IsObj(x) == x.t = "obj"

CanEdit ==
    /\ vpc = "build"
    /\ nEdits < MaxEdits
    /\ IsObj(thePack)

Edited(p) ==
    /\ thePack' = p
    /\ nEdits' = nEdits + 1
    /\ UNCHANGED <<vpc, policy, vres, codecVars, canonVars, wasmVars, engineVars>>

EditPack ==
    /\ CanEdit
    /\ \E e \in PackEdits : Edited(SetField(thePack, e[1], e[2]))

EditDict ==
    /\ CanEdit
    /\ IsObj(Get(thePack, "dict"))
    /\ \E e \in DictEdits :
          Edited(Put(thePack, "dict", SetField(Get(thePack, "dict"), e[1], e[2])))

EditBlock ==
    /\ CanEdit
    /\ IsArray(Get(thePack, "blocks"))
    /\ LET bs == Get(thePack, "blocks") IN
       \E k \in 0..(ArrLen(bs) - 1), e \in BlockEdits :
          /\ IsObj(ArrAt(bs, k))
          /\ Edited(Put(thePack, "blocks",
                        Arr([bs.v EXCEPT ![k + 1] = SetField(@, e[1], e[2])])))

\* The same change is made to every block of the pack.
EditEveryBlock ==
    /\ CanEdit
    /\ IsArray(Get(thePack, "blocks"))
    /\ LET bs == Get(thePack, "blocks") IN
       /\ ArrLen(bs) > 1
       /\ \A k \in 0..(ArrLen(bs) - 1) : IsObj(ArrAt(bs, k))
       /\ \E e \in EveryBlockEdits :
             Edited(Put(thePack, "blocks",
                        Arr([n \in DOMAIN bs.v |-> SetField(bs.v[n], e[1], e[2])])))

EditProof ==
    /\ CanEdit
    /\ IsObj(Get(thePack, "proof"))
    /\ \E e \in ProofEdits :
          Edited(Put(thePack, "proof", SetField(Get(thePack, "proof"), e[1], e[2])))

\* The hashes can be recomputed over the present content.
CanSeal ==
    /\ vpc = "build"
    /\ IsObj(thePack)
    /\ IsObj(Get(thePack, "dict"))
    /\ Get(thePack, "blocks").t = "arr"
    /\ \A k \in 0..(ArrLen(Get(thePack, "blocks")) - 1) :
          IsObj(ArrAt(Get(thePack, "blocks"), k))

Sealed(p) ==
    /\ thePack' = p
    /\ vpc' = "sealed"
    /\ UNCHANGED <<policy, nEdits, vres, codecVars, canonVars, wasmVars, engineVars>>

\* Only the pack hash is recomputed.
SealPack ==
    /\ vpc = "build"
    /\ IsObj(thePack)
    /\ Sealed(SealObj(thePack, "pack_sha256_canon"))

\* The block hashes and the pack hash are recomputed.
SealBlocks ==
    /\ CanSeal
    /\ Sealed(SealObj(SealBlocksOf(thePack), "pack_sha256_canon"))

\* Dict hash, dict links, block hashes and pack hash are recomputed.
SealAll ==
    /\ CanSeal
    /\ Sealed(SealObj(SealBlocksOf(SealDictOf(thePack)), "pack_sha256_canon"))

\* scxq2PackVerify(pack, opts) is called and returns.
PackVerify ==
    /\ vpc \in {"build", "sealed"}
    /\ \E P \in Policies :
          /\ policy' = P
          /\ vres' = scxq2PackVerify(thePack, P)
    /\ vpc' = "verified"
    /\ UNCHANGED <<thePack, nEdits, codecVars, canonVars, wasmVars, engineVars>>

InitVerify ==
    /\ CanonIdle
    /\ EngineIdle
    /\ WasmIdle
    /\ vpc = "build"
    /\ thePack \in BasePacks
    /\ policy = SCXQ2_DEFAULT_POLICY
    /\ nEdits = 0
    /\ vres = NoResult
    /\ pc = "idle"
    /\ origin = "none"
    /\ text = <<>>
    /\ dictArr = Arr(<<>>)
    /\ eI = 0
    /\ eBytes = <<>>
    /\ bytes = <<>>
    /\ maxOut = 0
    /\ i = 0
    /\ out = <<>>
    /\ outUnits = 0
    /\ dres = Running

NextVerify ==
    \/ EditPack
    \/ EditDict
    \/ EditBlock
    \/ EditEveryBlock
    \/ EditProof
    \/ SealPack
    \/ SealBlocks
    \/ SealAll
    \/ PackVerify

SpecVerify == InitVerify /\ [][NextVerify]_vars


(***************************************************************************)
(* Properties of the verifier.                                             *)
(***************************************************************************)
Verified == vpc = "verified"

\* the error step n returns for the verified pack, NoErr when it passes
StepResult(n) == StepErr(n, policy, thePack)

Fails(n) == StepResult(n) # NoErr

\* the steps before step n all pass
PassesBefore(n) == \A m \in 1..(n - 1) : ~Fails(m)

Rejected(code) == ~vres.ok /\ vres.error.code = code

\* the earliest of the steps n..6 that fails, 0 when none does
RECURSIVE EarliestFailing(_)
EarliestFailing(n) ==
    IF n > 6 THEN 0
    ELSE IF Fails(n) THEN n
    ELSE EarliestFailing(n + 1)

BlockDecode(k) ==
    LET b == ArrAt(Get(thePack, "blocks"), k)
        dec64 == strictB64Decode(Get(b, "b64")) IN
    IF dec64 = NoBytes THEN DecFail("b64", 0)
    ELSE scxq2DecodeUtf16(Get(Get(thePack, "dict"), "dict"), dec64.bytes,
                          policy.maxOutputUnits)

\* C4: a pack accepted under the default policy carries the recomputed pack,
\* dict and block hashes, every block links to the dictionary's hash, every
\* block decodes without error within maxOutputUnits to a text whose hash is
\* the block's source_sha256_utf8, and the result carries the pack hash, the
\* dict hash and the number of blocks.
C4_AcceptanceSound ==
    (Verified /\ policy = SCXQ2_DEFAULT_POLICY /\ vres.ok) =>
        LET dict == Get(thePack, "dict")
            blocks == Get(thePack, "blocks") IN
        /\ Get(thePack, "pack_sha256_canon")
              = RecomputedSha(thePack, "pack_sha256_canon")
        /\ Get(dict, "dict_sha256_canon") = RecomputedSha(dict, "dict_sha256_canon")
        /\ \A k \in 0..(ArrLen(blocks) - 1) :
              LET b == ArrAt(blocks, k) IN
              /\ Get(b, "block_sha256_canon") = RecomputedSha(b, "block_sha256_canon")
              /\ Get(b, "dict_sha256_canon") = Get(dict, "dict_sha256_canon")
              /\ BlockDecode(k).ok
              /\ Len(BlockDecode(k).value) <= policy.maxOutputUnits
              /\ sha256HexText(BlockDecode(k).value) = Get(b, "source_sha256_utf8")
        /\ vres.pack_sha256_canon = Get(thePack, "pack_sha256_canon")
        /\ vres.dict_sha256_canon = Get(dict, "dict_sha256_canon")
        /\ vres.blocks = ArrLen(blocks)

\* A changed pack of two blocks whose hashes were recomputed is accepted.
C4_Witness ==
    /\ Verified /\ policy = SCXQ2_DEFAULT_POLICY /\ vres.ok
    /\ nEdits > 0
    /\ vres.blocks = 2

PackShaIsRecomputed ==
    Get(thePack, "pack_sha256_canon") = RecomputedSha(thePack, "pack_sha256_canon")

\* C5 as stated: a pack that passes the three structure steps and whose
\* pack_sha256_canon is not the recomputed pack hash is rejected with
\* pack_sha_mismatch.
C5_AnyPackSha ==
    (Verified /\ PassesBefore(4) /\ ~PackShaIsRecomputed)
        => Rejected("scxq2.error.pack_sha_mismatch")

\* C5: a pack that passes the pack, dict and block structure steps and whose
\* pack_sha256_canon is present and non-empty but is not the recomputed pack
\* hash is rejected with pack_sha_mismatch, whatever dict hash, block hash,
\* decode, roundtrip or proof errors the pack would also produce.
C5_PackShaMismatchFirst ==
    (Verified /\ Truthy(Get(thePack, "pack_sha256_canon")) /\ PassesBefore(4)
        /\ ~PackShaIsRecomputed)
        => vres = fail(err("scxq2.error.pack_sha_mismatch", "canon",
                           "pack sha mismatch", AtField("pack_sha256_canon")))

\* The pack of the test: wrong pack hash, wrong dict and block hashes, a
\* source hash that is not the hash of the decoded text.
C5_Witness ==
    /\ Verified /\ PassesBefore(4)
    /\ Truthy(Get(thePack, "pack_sha256_canon")) /\ ~PackShaIsRecomputed
    /\ Get(Get(thePack, "dict"), "dict_sha256_canon")
          # RecomputedSha(Get(thePack, "dict"), "dict_sha256_canon")
    /\ Fails(5)
    /\ Rejected("scxq2.error.pack_sha_mismatch")

ValidHeader(o, type) ==
    /\ IsObj(o)
    /\ Get(o, "@type") = SStr(type)
    /\ Get(o, "@version") = SStr("1.0.0")
    /\ Get(o, "mode") = ModeName
    /\ Get(o, "encoding") = EncodingName

DictEntries == Get(Get(thePack, "dict"), "dict")

AllStrings(arr) == \A j \in {0, ArrLen(arr) - 1} : IsString(ArrAt(arr, j))

\* C10: under the default policy a dictionary of exactly 65535 entries never
\* causes dict_size_exceeds_limit, and a pack with valid @type, @version,
\* mode and encoding, a well-formed dict header, a non-empty blocks array and
\* a dictionary of 65536 string entries is rejected with
\* dict_size_exceeds_limit, a proof and a pack hash being present or not.
C10_DictSizeBoundary ==
    (Verified /\ policy = SCXQ2_DEFAULT_POLICY) =>
        /\ (IsArray(DictEntries) /\ ArrLen(DictEntries) = 65535)
              => ~Rejected("scxq2.error.dict_size_exceeds_limit")
        /\ (/\ ValidHeader(thePack, "scxq2.pack")
            /\ ValidHeader(Get(thePack, "dict"), "scxq2.dict")
            /\ IsArray(Get(thePack, "blocks"))
            /\ ArrLen(Get(thePack, "blocks")) >= 1
            /\ IsArray(DictEntries)
            /\ ArrLen(DictEntries) = 65536
            /\ AllStrings(DictEntries))
              => Rejected("scxq2.error.dict_size_exceeds_limit")

\* The pack of the test, as built, is rejected for its missing proof.
C10_Witness ==
    /\ Verified /\ policy = SCXQ2_DEFAULT_POLICY
    /\ thePack = DictLimitTestPack
    /\ Rejected("scxq2.error.pack_proof_missing")


AllowEdgesOff == [SCXQ2_DEFAULT_POLICY EXCEPT !.allowEdges = FALSE]

Blocks == Get(thePack, "blocks")

\* block k has a valid header, a non-empty b64, the dictionary's hash as its
\* link and a block hash
BlockLinked(k) ==
    LET b == ArrAt(Blocks, k) IN
    /\ IsObj(b)
    /\ Get(b, "@type") = SStr("scxq2.block")
    /\ Get(b, "mode") = ModeName
    /\ Get(b, "encoding") = EncodingName
    /\ IsString(Get(b, "b64")) /\ Truthy(Get(b, "b64"))
    /\ Truthy(Get(b, "dict_sha256_canon"))
    /\ Get(b, "dict_sha256_canon") = Get(Get(thePack, "dict"), "dict_sha256_canon")
    /\ Truthy(Get(b, "block_sha256_canon"))

\* C11: with allowEdges = false and all other options default, a pack that
\* passes the pack and dict structure steps, whose blocks all have a valid
\* header, b64, dict link and block hash, and one of whose blocks has an edges
\* field is rejected with policy_disabled_feature, a source_sha256_utf8 being
\* present in the block or not.
C11_EdgesDisabled ==
    (/\ Verified /\ policy = AllowEdgesOff
     /\ PassesBefore(3)
     /\ \A k \in 0..(ArrLen(Blocks) - 1) : BlockLinked(k)
     /\ \E k \in 0..(ArrLen(Blocks) - 1) : Has(ArrAt(Blocks, k), "edges"))
        => Rejected("scxq2.error.policy_disabled_feature")

\* The pack of the test, as built, is rejected for its missing source hash.
C11_Witness ==
    /\ Verified /\ policy = AllowEdgesOff
    /\ thePack = EdgesTestPack
    /\ Rejected("scxq2.error.block_source_sha_missing")


(***************************************************************************)
(* Canonical JSON tests: canon of a value tree and of the same tree with   *)
(* its object keys in another order.                                       *)
(***************************************************************************)
\* { b: 2, a: 1, c: { z: 26, y: 25 } }
CanonObj1 ==
    Obj(<< <<"b", JNum(2)>>, <<"a", JNum(1)>>,
           <<"c", Obj(<< <<"z", JNum(26)>>, <<"y", JNum(25)>> >>)>> >>)

\* { c: { y: 25, z: 26 }, a: 1, b: 2 }
CanonObj2 ==
    Obj(<< <<"c", Obj(<< <<"y", JNum(25)>>, <<"z", JNum(26)>> >>)>>,
           <<"a", JNum(1)>>, <<"b", JNum(2)>> >>)

\* { arr: [3, 1, 2], b: "test" }
CanonArrObj == 
    Obj(<< <<"arr", Arr(<<JNum(3), JNum(1), JNum(2)>>)>>, <<"b", SStr("test")>> >>)

\* objects inside an array inside an object, and an array at the root
CanonNested ==
    Obj(<< <<"c", Obj(<< <<"z", JNull>>, <<"y", JBool(TRUE)>> >>)>>,
           <<"arr", Arr(<< Obj(<< <<"z", JNum(26)>>, <<"y", JNum(25)>> >>),
                           Obj(<< <<"b", JNum(2)>>, <<"a", JNum(1)>> >>) >>)>>,
           <<"b", SStr("test")>>,
           <<"a", JNum(1)>> >>)

CanonInputs == {CanonObj1, CanonArrObj, CanonNested, Arr(<<CanonObj1, CanonArrObj>>)}

\* the trees that differ from v in the order of two neighbouring keys of one
\* object, at any depth
RECURSIVE SwapsOf(_)
SwapsOf(v) ==
    CASE v.t = "arr" ->
            UNION {{Arr([v.v EXCEPT ![n] = w]) : w \in SwapsOf(v.v[n])} : n \in DOMAIN v.v}
      [] v.t = "obj" ->
            {Obj([v.v EXCEPT ![n] = v.v[n + 1], ![n + 1] = v.v[n]]) :
                n \in 1..(Len(v.v) - 1)}
            \cup UNION {{Obj([v.v EXCEPT ![n] = <<v.v[n][1], w>>]) :
                            w \in SwapsOf(v.v[n][2])} : n \in DOMAIN v.v}
      [] OTHER -> {}

\* the second object of the test is written with its keys in another order
SwapKeys ==
    /\ obj1 # Undef
    /\ \E y \in SwapsOf(obj2) : obj2' = y
    /\ canon1' = Undef
    /\ canon2' = Undef
    /\ UNCHANGED <<obj1, codecVars, verifyVars, engineVars, wasmVars>>

\* canon(obj1), canon(obj2)
Canon ==
    /\ obj1 # Undef
    /\ canon1 = Undef
    /\ canon1' = canon(obj1)
    /\ canon2' = canon(obj2)
    /\ UNCHANGED <<obj1, obj2, codecVars, verifyVars, engineVars, wasmVars>>

InitCanon ==
    /\ EngineIdle
    /\ WasmIdle
    /\ obj1 \in CanonInputs
    /\ obj2 = obj1
    /\ canon1 = Undef
    /\ canon2 = Undef
    /\ VerifyIdle
    /\ CodecIdle

NextCanon ==
    \/ SwapKeys
    \/ Canon

SpecCanon == InitCanon /\ [][NextCanon]_vars

\* x and y are the same value tree up to the order of object keys
RECURSIVE SameUpToKeyOrder(_, _)
SameUpToKeyOrder(x, y) ==
    CASE x.t = "arr" ->
            /\ y.t = "arr" /\ Len(y.v) = Len(x.v)
            /\ \A n \in DOMAIN x.v : SameUpToKeyOrder(x.v[n], y.v[n])
      [] x.t = "obj" ->
            /\ y.t = "obj" /\ Keys(y) = Keys(x) /\ Len(y.v) = Len(x.v)
            /\ \A k \in Keys(x) : SameUpToKeyOrder(Get(x, k), Get(y, k))
      [] OTHER -> x = y

\* C12: key-order invariance: two value trees that differ only in the order of
\* object keys, at any depth and with arrays in the same element order, have
\* the same canon text.
C12_KeyOrderInvariance ==
    (canon1 # Undef /\ SameUpToKeyOrder(obj1, obj2)) => canon1 = canon2

\* The two objects of the test, in different key orders at both depths, with
\* the canon text the test expects.
C12_Witness ==
    /\ obj1 = CanonObj1 /\ obj2 = CanonObj2
    /\ canon1 = canon2
    /\ canon1 = [json |-> Obj(<< <<"a", JNum(1)>>, <<"b", JNum(2)>>,
                                 <<"c", Obj(<< <<"y", JNum(25)>>, <<"z", JNum(26)>> >>)>> >>)]


\* one field of the pack, of its dict, of a block or of its proof is changed
\* and pack_sha256_canon is as it was
FieldChanged ==
    /\ nEdits' = nEdits + 1
    /\ thePack' # thePack
    /\ Get(thePack', "pack_sha256_canon") = Get(thePack, "pack_sha256_canon")

WellFormedB64(u) ==
    /\ Len(u) % 4 = 0
    /\ \A n \in 1..Len(u) : B64Val(u[n]) >= 0 \/ u[n] = 61
    /\ \A n \in 1..Len(u) : u[n] = 61 => n > Len(u) - 2
    /\ \A n \in 1..(Len(u) - 1) : u[n] = 61 => u[n + 1] = 61

\* block k is the first block that STEP 5 does not pass on its own, and its
\* b64 is a string that is not a base64 text
FirstBadB64(k) ==
    LET b64 == Get(ArrAt(Blocks, k), "b64") IN
    /\ b64.t = "ustr"
    /\ ~WellFormedB64(b64.v)
    /\ \A j \in 0..(k - 1) : DecodeBlockAt(policy, thePack, j) = NoErr

\* C18: a pack that reaches STEP 5 and whose first block to fail there has a
\* b64 with a character outside the base64 alphabet or with invalid padding
\* ("=" anywhere but the end, more than two "=", a length that is not a
\* multiple of 4) is rejected with block_b64_invalid.
C18_StrictBase64 ==
    (/\ Verified /\ PassesBefore(5)
     /\ \E k \in 0..(ArrLen(Blocks) - 1) : FirstBadB64(k))
        => Rejected("scxq2.error.block_b64_invalid")

\* A pack whose second block has the unpadded b64 "Qg" is accepted: its bytes
\* were decoded and hashed.
C18_Witness ==
    /\ Verified /\ policy = SCXQ2_DEFAULT_POLICY
    /\ vres.ok
    /\ Get(ArrAt(Blocks, 1), "b64") = UStr(<<81, 103>>)


(***************************************************************************)
(* The error code registry, by family.                                     *)
(***************************************************************************)
PackCodes ==
    {"scxq2.error.pack_missing", "scxq2.error.pack_type_invalid",
     "scxq2.error.pack_version_unsupported", "scxq2.error.pack_mode_mismatch",
     "scxq2.error.pack_encoding_mismatch", "scxq2.error.pack_created_utc_invalid",
     "scxq2.error.pack_blocks_missing", "scxq2.error.pack_proof_missing",
     "scxq2.error.pack_sha_missing", "scxq2.error.pack_sha_mismatch",
     "scxq2.error.pack_field_forbidden"}

DictCodes ==
    {"scxq2.error.dict_missing", "scxq2.error.dict_type_invalid",
     "scxq2.error.dict_version_unsupported", "scxq2.error.dict_sha_missing",
     "scxq2.error.dict_sha_mismatch", "scxq2.error.dict_size_exceeds_limit",
     "scxq2.error.dict_entry_type_invalid", "scxq2.error.dict_entry_exceeds_limit"}

BlockCodes ==
    {"scxq2.error.block_type_invalid", "scxq2.error.block_mode_mismatch",
     "scxq2.error.block_encoding_mismatch", "scxq2.error.block_b64_missing",
     "scxq2.error.block_b64_invalid", "scxq2.error.block_sha_missing",
     "scxq2.error.block_sha_mismatch", "scxq2.error.block_source_sha_missing",
     "scxq2.error.block_dict_link_missing", "scxq2.error.block_dict_link_mismatch",
     "scxq2.error.block_lane_id_invalid", "scxq2.error.block_edges_invalid",
     "scxq2.error.block_edges_exceeds_limit"}

DecodeCodes ==
    {"scxq2.error.decode_invalid_byte", "scxq2.error.decode_truncated_sequence",
     "scxq2.error.decode_dict_index_oob", "scxq2.error.decode_dict_entry_invalid",
     "scxq2.error.decode_output_limit", "scxq2.error.decode_input_limit",
     "scxq2.error.decode_internal"}

ProofCodes ==
    {"scxq2.error.proof_type_invalid", "scxq2.error.proof_version_unsupported",
     "scxq2.error.proof_witness_missing", "scxq2.error.proof_roundtrip_sha_mismatch",
     "scxq2.error.proof_source_sha_mismatch", "scxq2.error.proof_ok_false"}

CanonCodes == {"scxq2.error.canon_invalid_json", "scxq2.error.canon_hash_failed"}

PolicyCodes ==
    {"scxq2.error.policy_roundtrip_required", "scxq2.error.policy_unknown_encoding",
     "scxq2.error.policy_disabled_feature", "scxq2.error.policy_budget_exhausted"}

ErrorRegistry ==
    PackCodes \cup DictCodes \cup BlockCodes \cup DecodeCodes \cup ProofCodes
        \cup CanonCodes \cup PolicyCodes

\* a value whose fields can be read (reading a field of null or undefined
\* throws a TypeError)
Readable(x) == x.t \notin {"null", "undef"}

\* every field read of a step is on a value the steps before it have shown
\* to be readable: pack.blocks is an array from STEP 2 on, the dict and every
\* block are objects and dict.dict an array of strings from STEP 4 on
ReadsDefined ==
    PassesBefore(2) =>
    /\ Readable(thePack)
    /\ IsArray(Blocks)
    /\ Readable(Get(thePack, "dict"))
    /\ (~Fails(2) /\ ~Fails(3)) =>
          /\ IsObjectType(Get(thePack, "dict"))
          /\ IsArray(Get(Get(thePack, "dict"), "dict"))
          /\ ArrLen(Get(Get(thePack, "dict"), "dict")) > 0
                => AllStrings(Get(Get(thePack, "dict"), "dict"))
          /\ \A k \in 0..(ArrLen(Blocks) - 1) : IsObjectType(ArrAt(Blocks, k))

C20_PhaseOfFamily ==
    (Verified /\ ~vres.ok) =>
        LET e == vres.error IN
        /\ e.code \in PackCodes => e.phase = "pack"
        /\ e.code \in DictCodes => e.phase = "dict"
        /\ e.code \in BlockCodes => e.phase = "block"
        /\ e.code \in DecodeCodes => e.phase = "decode"
        /\ e.code \in ProofCodes => e.phase = "proof"

\* The pack of the hash test is rejected with pack_sha_mismatch in phase
\* "canon".
C20_Witness ==
    /\ Verified /\ policy = SCXQ2_DEFAULT_POLICY
    /\ thePack = HashTestPack
    /\ Rejected("scxq2.error.pack_sha_mismatch")
    /\ vres.error.phase = "canon"


(***************************************************************************)
(* The compression engine (dist/engine.js): ccCompress, ccCompressSync,    *)
(* ccCompressLanes, ccCompressLanesSync, ccDecompress.                     *)
(***************************************************************************)
Max(a, b) == IF a > b THEN a ELSE b

\* Math.min(hi, Math.max(lo, v))
clamp(v, lo, hi) == Min(hi, Max(lo, v))

\* a ?? b
Nullish(a, b) == IF a.t \in {"null", "undef"} THEN b ELSE a

\* new Date().toISOString().replace(/\.\d{3}Z$/, "Z") at clock second t:
\* "2026-01-03T00:00:0tZ"
isoUtc(t) ==
    UStr(<<50, 48, 50, 54, 45, 48, 49, 45, 48, 51, 84,
           48, 48, 58, 48, 48, 58, 48, 48 + t, 90>>)

\* normalizeOpts(opts), called at clock second t
normalizeOpts(o, t) ==
    [maxDict |-> clamp(Nullish(Get(o, "maxDict"), JNum(1024)).v, 1, 65535),
     minLen |-> clamp(Nullish(Get(o, "minLen"), JNum(3)).v, 2, 128),
     created_utc |-> Nullish(Get(o, "created_utc"), isoUtc(t)),
     source_file |-> Nullish(Get(o, "source_file"), JNull),
     enableFieldOps |-> Truthy(Get(o, "enableFieldOps")),
     enableEdgeOps |-> Truthy(Get(o, "enableEdgeOps")),
     flags |-> Obj(<< <<"noStrings", JBool(Truthy(Get(o, "noStrings")))>>,
                      <<"noWS", JBool(Truthy(Get(o, "noWS")))>>,
                      <<"noPunct", JBool(Truthy(Get(o, "noPunct")))>> >>)]

\* canonicalizeInput of a string: s.replace(/\r\n/g, "\n").replace(/\r/g, "\n")
RECURSIVE canonicalizeInput_KeepsCr(_)
canonicalizeInput_KeepsCr(s) ==
    IF s = <<>> THEN <<>>
    ELSE IF Len(s) >= 2 /\ s[1] = 13 /\ s[2] = 10
    THEN <<10>> \o canonicalizeInput_KeepsCr(SubSeq(s, 3, Len(s)))
    ELSE <<s[1]>> \o canonicalizeInput_KeepsCr(Tail(s))

RECURSIVE canonicalizeInput(_)
canonicalizeInput(s) ==
    IF s = <<>> THEN <<>>
    ELSE IF Len(s) >= 2 /\ s[1] = 13 /\ s[2] = 10
    THEN <<10>> \o canonicalizeInput(SubSeq(s, 3, Len(s)))
    ELSE IF s[1] = 13 THEN <<10>> \o canonicalizeInput(Tail(s))
    ELSE <<s[1]>> \o canonicalizeInput(Tail(s))

\* the character classes of collectTokens
IsIdStart(c) == (c >= 65 /\ c <= 90) \/ (c >= 97 /\ c <= 122) \/ c = 95 \/ c = 36
IsIdChar(c) == IsIdStart(c) \/ (c >= 48 /\ c <= 57)
IsBlank(c) == c = 32 \/ c = 9
PunctUnits ==
    {123, 125, 40, 41, 91, 93, 59, 44, 46, 61, 58, 43, 45, 42, 47, 60, 62,
     33, 38, 124, 37, 94}

InClass(cls, c) ==
    CASE cls = "idstart" -> IsIdStart(c)
      [] cls = "id" -> IsIdChar(c)
      [] cls = "ws" -> IsBlank(c)
      [] cls = "punct" -> c \in PunctUnits

\* the 0-based end of the longest run of units of class cls that starts at pos
RECURSIVE RunEnd(_, _, _)
RunEnd(txt, pos, cls) ==
    IF pos < Len(txt) /\ InClass(cls, txt[pos + 1])
    THEN RunEnd(txt, pos + 1, cls)
    ELSE pos

\* text.matchAll(/[head][rest]{min,}/g) from pos on: the matches, left to right
RECURSIVE MatchAll(_, _, _, _, _)
MatchAll(txt, pos, head, rest, min) ==
    IF pos >= Len(txt) THEN <<>>
    ELSE LET end == RunEnd(txt, pos + 1, rest) IN
         IF InClass(head, txt[pos + 1]) /\ end - (pos + 1) >= min
         THEN <<SubSeq(txt, pos + 1, end)>> \o MatchAll(txt, end, head, rest, min)
         ELSE MatchAll(txt, pos + 1, head, rest, min)

\* bytes += s.charCodeAt(i) < 128 ? 1 : 3
RECURSIVE estimateBytes(_)
estimateBytes(s) ==
    IF s = <<>> THEN 0
    ELSE (IF s[1] < 128 THEN 1 ELSE 3) + estimateBytes(Tail(s))

\* a < b of two strings: by code units
RECURSIVE StrLess(_, _)
StrLess(a, b) ==
    IF b = <<>> THEN FALSE
    ELSE IF a = <<>> THEN TRUE
    ELSE IF a[1] # b[1] THEN a[1] < b[1]
    ELSE StrLess(Tail(a), Tail(b))

\* the comparator of scored.sort: savings, then length, then the token
ScoredBefore(a, b) ==
    \/ a.totalSavings > b.totalSavings
    \/ a.totalSavings = b.totalSavings /\ Len(a.tok) > Len(b.tok)
    \/ a.totalSavings = b.totalSavings /\ Len(a.tok) = Len(b.tok)
          /\ StrLess(a.tok, b.tok)

RECURSIVE SortScored(_)
SortScored(S) ==
    IF S = {} THEN <<>>
    ELSE LET x == CHOOSE x \in S : \A y \in S \ {x} : ScoredBefore(x, y) IN
         <<x>> \o SortScored(S \ {x})

\* collectTokens(text, o).  The texts of the model hold no quote character,
\* so the string literal and JSON key patterns have no match.
collectTokens(txt, o) ==
    LET found == MatchAll(txt, 0, "idstart", "id", 2)
                 \o (IF Get(o.flags, "noWS").v THEN <<>>
                     ELSE MatchAll(txt, 0, "ws", "ws", 1))
                 \o (IF Get(o.flags, "noPunct").v THEN <<>>
                     ELSE MatchAll(txt, 0, "punct", "punct", 1))
        added == SelectSeq(found, LAMBDA tok :
                    Len(tok) >= o.minLen /\ \A n \in DOMAIN tok : tok[n] # 0)
        count(tok) == Cardinality({n \in DOMAIN added : added[n] = tok})
        scored == {[tok |-> added[n], count |-> count(added[n]),
                    totalSavings |-> (estimateBytes(added[n]) - 3) * count(added[n])] :
                     n \in {m \in DOMAIN added :
                              /\ count(added[m]) >= 2
                              /\ (estimateBytes(added[m]) - 3) * count(added[m]) > 0}}
    IN SortScored(scored)

\* the comparator of dict.sort: longest first, then the token
DictBefore(a, b) == Len(a) > Len(b) \/ (Len(a) = Len(b) /\ StrLess(a, b))

RECURSIVE SortDict(_)
SortDict(S) ==
    IF S = {} THEN <<>>
    ELSE LET x == CHOOSE x \in S : \A y \in S \ {x} : DictBefore(x, y) IN
         <<x>> \o SortDict(S \ {x})

\* buildDict(scored, o): the first maxDict tokens, longest first
buildDict(scored, o) ==
    LET taken == {scored[n].tok : n \in 1..Min(o.maxDict, Len(scored))}
        sorted == SortDict(taken) IN
    Arr([n \in DOMAIN sorted |-> UStr(sorted[n])])


\* a thrown Error
Threw(msg) == [threw |-> msg]

\* both hash functions are SHA-256 over the UTF-8 bytes of a string, which is
\* a text of code units or the JSON text canon returns
\* sha256HexUtf8: WebCrypto digest, or Node's createHash
sha256HexUtf8(x) ==
    IF "json" \in DOMAIN x THEN sha256HexCanon(x) ELSE sha256HexText(x.v)

\* sha256HexUtf8Sync(text, node): Node's createHash
sha256HexUtf8Sync(x) ==
    IF "json" \in DOMAIN x THEN sha256HexCanon(x) ELSE sha256HexText(x.v)

\* strip(obj, fields) of canon.js: a shallow copy without the fields
strip(obj, fields) ==
    Obj(SelectSeq(obj.v, LAMBDA pr : \A n \in DOMAIN fields : fields[n] # pr[1]))

\* new TextEncoder().encode(s).length
utf8Bytes(u) == Len(Utf8(u))

EngineId == SStr("asx://cc/engine/scxq2.v1")

\* the edges of encodeSCXQ2: null unless enableEdgeOps, else the pairs of
\* dictionary indices of matches that follow one another directly
RECURSIVE EdgesRun(_, _, _, _)
EdgesRun(txt, dict, pos, last) ==
    IF ~(pos < Len(txt)) THEN <<>>
    ELSE LET n == FirstMatch(txt, dict, pos) IN
         IF n = 0 THEN EdgesRun(txt, dict, pos + 1, -1)
         ELSE LET idx == MapGet(dict, dict[n].v) IN
              (IF last >= 0 THEN <<Arr(<<JNum(last), JNum(idx)>>)>> ELSE <<>>)
                  \o EdgesRun(txt, dict, pos + Len(dict[n].v), idx)

encodeEdges(txt, dict, enableEdgeOps) ==
    IF enableEdgeOps THEN Arr(EdgesRun(txt, dict.v, 0, -1)) ELSE JNull

makeDictJson(dict, srcSha, o) ==
    Obj(<< <<"@type", SStr("scxq2.dict")>>,
           <<"@version", SStr("1.0.0")>>,
           <<"mode", ModeName>>,
           <<"encoding", EncodingName>>,
           <<"created_utc", o.created_utc>>,
           <<"source_sha256_utf8", srcSha>>,
           <<"max_dict", JNum(o.maxDict)>>,
           <<"min_len", JNum(o.minLen)>>,
           <<"flags", o.flags>>,
           <<"dict", dict>> >>)

makeBlockJson(b64, srcSha, dictSha, src, o, edges) ==
    LET block == Obj(<< <<"@type", SStr("scxq2.block")>>,
                        <<"@version", SStr("1.0.0")>>,
                        <<"mode", ModeName>>,
                        <<"encoding", EncodingName>>,
                        <<"created_utc", o.created_utc>>,
                        <<"source_sha256_utf8", srcSha>>,
                        <<"dict_sha256_canon", dictSha>>,
                        <<"original_bytes_utf8", JNum(utf8Bytes(src))>>,
                        <<"b64", b64>> >>) IN
    IF Truthy(edges) /\ ArrLen(edges) > 0
    THEN Put(block, "edges", Arr(SubSeq(edges.v, 1, Min(1000, Len(edges.v)))))
    ELSE block

makeLaneBlockJson(laneId, b64, srcSha, dictSha, src, o, edges) ==
    Put(makeBlockJson(b64, srcSha, dictSha, src, o, edges), "lane_id", laneId)

makeProof(srcSha, rtSha, dictJson, blockJson, o) ==
    Obj(<< <<"@type", SStr("cc.proof")>>,
           <<"@version", SStr("1.0.0")>>,
           <<"engine", EngineId>>,
           <<"created_utc", o.created_utc>>,
           <<"source_sha256_utf8", srcSha>>,
           <<"dict_sha256_canon", Get(dictJson, "dict_sha256_canon")>>,
           <<"block_sha256_canon", Get(blockJson, "block_sha256_canon")>>,
           <<"roundtrip_sha256_utf8", rtSha>>,
           <<"ok", JBool(srcSha = rtSha)>>,
           <<"steps",
             Arr(<< Obj(<< <<"op", SStr("cc.norm.v1")>>, <<"sha", srcSha>> >>),
                    Obj(<< <<"op", SStr("cc.dict.v1")>>,
                           <<"dict_entries", JNum(ArrLen(Get(dictJson, "dict")))>> >>),
                    Obj(<< <<"op", SStr("scxq2.encode.v1")>>,
                           <<"block_sha", Get(blockJson, "block_sha256_canon")>> >>),
                    Obj(<< <<"op", SStr("scxq2.decode.v1")>>,
                           <<"roundtrip_sha", rtSha>> >>) >>)>> >>)

\* Number((b64Bytes / srcBytes).toFixed(6)), in millionths
Ratio6(b64Bytes, srcBytes) ==
    [t |-> "num", v |-> (2 * 1000000 * b64Bytes + srcBytes) \div (2 * srcBytes),
     unit |-> "1e-6"]

makeAudit(src, tokenStats, dictJson, blockJson, o) ==
    LET srcBytes == utf8Bytes(src)
        b64Bytes == utf8Bytes(Get(blockJson, "b64").v) IN
    Obj(<< <<"@type", SStr("cc.audit")>>,
           <<"@version", SStr("1.0.0")>>,
           <<"engine", EngineId>>,
           <<"created_utc", o.created_utc>>,
           <<"sizes",
             Obj(<< <<"original_bytes_utf8", JNum(srcBytes)>>,
                    <<"encoded_b64_bytes_utf8", JNum(b64Bytes)>>,
                    <<"ratio", IF srcBytes # 0 THEN Ratio6(b64Bytes, srcBytes)
                               ELSE JNull>> >>)>>,
           <<"dict",
             Obj(<< <<"entries", JNum(ArrLen(Get(dictJson, "dict")))>>,
                    <<"max_dict", Get(dictJson, "max_dict")>>,
                    <<"min_len", Get(dictJson, "min_len")>>,
                    <<"flags", Get(dictJson, "flags")>> >>)>>,
           <<"top_tokens",
             Arr([n \in 1..Min(25, Len(tokenStats)) |->
                    Obj(<< <<"tok", UStr(tokenStats[n].tok)>>,
                           <<"count", JNum(tokenStats[n].count)>>,
                           <<"totalSavings", JNum(tokenStats[n].totalSavings)>> >>)])>> >>)

\* verifyPack(dictJson, blockJson): the message of the Error it throws, "" when
\* it returns { ok: true }
verifyPack(dictJson, blockJson) ==
    IF ~Truthy(dictJson) \/ ~IsObjectType(dictJson) THEN "SCXQ2: missing dict"
    ELSE IF ~Truthy(blockJson) \/ ~IsObjectType(blockJson) THEN "SCXQ2: missing block"
    ELSE IF ~StrictEq(Get(dictJson, "@type"), SStr("scxq2.dict"))
    THEN "SCXQ2: invalid dict @type"
    ELSE IF ~StrictEq(Get(blockJson, "@type"), SStr("scxq2.block"))
    THEN "SCXQ2: invalid block @type"
    ELSE IF ~IsArray(Get(dictJson, "dict")) THEN "SCXQ2: dict must be array"
    ELSE IF ~IsString(Get(blockJson, "b64")) THEN "SCXQ2: block b64 must be string"
    ELSE IF ~StrictEq(Get(dictJson, "mode"), ModeName) THEN "SCXQ2: invalid dict mode"
    ELSE IF ~StrictEq(Get(blockJson, "mode"), ModeName) THEN "SCXQ2: invalid block mode"
    ELSE IF ~StrictEq(Get(dictJson, "encoding"), EncodingName)
    THEN "SCXQ2: invalid dict encoding"
    ELSE IF ~StrictEq(Get(blockJson, "encoding"), EncodingName)
    THEN "SCXQ2: invalid block encoding"
    ELSE IF /\ Truthy(Get(blockJson, "dict_sha256_canon"))
            /\ Truthy(Get(dictJson, "dict_sha256_canon"))
            /\ ~StrictEq(Get(blockJson, "dict_sha256_canon"),
                         Get(dictJson, "dict_sha256_canon"))
    THEN "SCXQ2: dict linkage mismatch"
    ELSE ""

\* base64ToBytes(b64) under Node: an optional "base64:" prefix is cut off
Base64Prefix == <<98, 97, 115, 101, 54, 52, 58>>
base64ToBytes(u) ==
    IF StartsWith(u, Base64Prefix, 0)
    THEN BufferFromBase64(SubSeq(u, Len(Base64Prefix) + 1, Len(u)))
    ELSE BufferFromBase64(u)

\* the loop of ccDecompress from byte position pos on, acc being out so far
RECURSIVE DecompressRun(_, _, _, _)
DecompressRun(dict, bs, pos, acc) ==
    IF ~(pos < Len(bs)) THEN [value |-> acc]
    ELSE IF bs[pos + 1] = 128
    THEN LET tok == ArrAt(dict, Be16(bs, pos)) IN
         IF ~IsString(tok) THEN Threw("SCXQ2: invalid dict reference")
         ELSE DecompressRun(dict, bs, pos + 3, acc \o tok.v)
    ELSE IF bs[pos + 1] = 129
    THEN DecompressRun(dict, bs, pos + 3, Append(acc, Be16(bs, pos)))
    ELSE DecompressRun(dict, bs, pos + 1, Append(acc, bs[pos + 1]))

\* ccDecompress(dictJson, blockJson): [value |-> the string] or a thrown Error
ccDecompress(dictJson, blockJson) ==
    IF verifyPack(dictJson, blockJson) # ""
    THEN Threw(verifyPack(dictJson, blockJson))
    ELSE DecompressRun(Get(dictJson, "dict"),
                       base64ToBytes(Get(blockJson, "b64").v), 0, <<>>)


\* a local of a function body is computed once: the value of the one-element set
Only(S) == CHOOSE x \in S : TRUE

\* ccCompress(input, opts) called at clock second t: the result object, or
\* the Error thrown
ccCompress(inp, op, t) ==
    Only({Only({Only({Only({Only({Only({
        IF "threw" \in DOMAIN roundtrip THEN roundtrip
        ELSE Obj(<< <<"dict", dictJson>>,
                    <<"block", blockJson>>,
                    <<"proof", makeProof(srcSha, sha256HexUtf8(UStr(roundtrip.value)),
                                         dictJson, blockJson, o)>>,
                    <<"audit", makeAudit(src, tokenStats, dictJson, blockJson, o)>> >>)
        : roundtrip \in {ccDecompress(dictJson, blockJson)}})
        : blockJson \in
            {LET blockJson0 == makeBlockJson(b64, srcSha,
                                             Get(dictJson, "dict_sha256_canon"),
                                             src, o, edges)
             IN Put(blockJson0, "block_sha256_canon",
                    sha256HexUtf8(canon(strip(blockJson0, <<"block_sha256_canon">>))))}})
        : b64 \in {encodeSCXQ2(src, dict).b64},
          edges \in {encodeEdges(src, dict, o.enableEdgeOps)},
          dictJson \in
            {LET dictJson0 == makeDictJson(dict, srcSha, o)
             IN Put(dictJson0, "dict_sha256_canon",
                    sha256HexUtf8(canon(strip(dictJson0, <<"dict_sha256_canon">>))))}})
        : dict \in {buildDict(tokenStats, o)}})
        : srcSha \in {sha256HexUtf8(UStr(src))},
          tokenStats \in {collectTokens(src, o)}})
        : o \in {normalizeOpts(op, t)},
          src \in {canonicalizeInput(inp)}})

\* ccCompressSync(input, opts) called at clock second t, where node is whether
\* getNodeCrypto() returns the crypto module (it returns null where require is
\* not defined: a browser, a worker, Node.js loading the file as an ES module)
ccCompressSync(inp, op, t, node) ==
    IF ~node
    THEN Threw("SCXQ2: ccCompressSync requires Node.js crypto module")
    ELSE
    Only({Only({Only({Only({Only({Only({
        IF "threw" \in DOMAIN roundtrip THEN roundtrip
        ELSE Obj(<< <<"dict", dictJson>>,
                    <<"block", blockJson>>,
                    <<"proof", makeProof(srcSha, sha256HexUtf8Sync(UStr(roundtrip.value)),
                                         dictJson, blockJson, o)>>,
                    <<"audit", makeAudit(src, tokenStats, dictJson, blockJson, o)>> >>)
        : roundtrip \in {ccDecompress(dictJson, blockJson)}})
        : blockJson \in
            {LET blockJson0 == makeBlockJson(b64, srcSha,
                                             Get(dictJson, "dict_sha256_canon"),
                                             src, o, edges)
             IN Put(blockJson0, "block_sha256_canon",
                    sha256HexUtf8Sync(canon(strip(blockJson0, <<"block_sha256_canon">>))))}})
        : b64 \in {encodeSCXQ2(src, dict).b64},
          edges \in {encodeEdges(src, dict, o.enableEdgeOps)},
          dictJson \in
            {LET dictJson0 == makeDictJson(dict, srcSha, o)
             IN Put(dictJson0, "dict_sha256_canon",
                    sha256HexUtf8Sync(canon(strip(dictJson0, <<"dict_sha256_canon">>))))}})
        : dict \in {buildDict(tokenStats, o)}})
        : srcSha \in {sha256HexUtf8Sync(UStr(src))},
          tokenStats \in {collectTokens(src, o)}})
        : o \in {normalizeOpts(op, t)},
          src \in {canonicalizeInput(inp)}})

\* s.trim()
WhiteSpaceUnits == {9, 10, 11, 12, 13, 32, 160, 8232, 8233, 65279}
RECURSIVE trim(_)
trim(u) ==
    IF u = <<>> THEN u
    ELSE IF u[1] \in WhiteSpaceUnits THEN trim(Tail(u))
    ELSE IF u[Len(u)] \in WhiteSpaceUnits THEN trim(SubSeq(u, 1, Len(u) - 1))
    ELSE u

\* String(l?.lane_id ?? "").trim() of a lane whose lane_id is a string or absent
LaneIdOf(l) == UStr(trim(Nullish(Get(l, "lane_id"), UStr(<<>>)).v))

\* out.sort by lane_id: a stable sort of the lanes at the positions in S
RECURSIVE SortLanes(_, _)
SortLanes(ls, S) ==
    IF S = {} THEN <<>>
    ELSE LET n == CHOOSE n \in S :
                    \A m \in S \ {n} :
                        \/ StrLess(ls[n].lane_id.v, ls[m].lane_id.v)
                        \/ ls[n].lane_id = ls[m].lane_id /\ n < m
         IN <<ls[n]>> \o SortLanes(ls, S \ {n})

\* normalizeLanes(laneInput): [v |-> the lanes in lane_id order] or the Error
normalizeLanes(laneInput) ==
    IF ~Truthy(laneInput) \/ ~IsObjectType(laneInput)
    THEN Threw("SCXQ2: lanes input invalid")
    ELSE LET lanes == Get(laneInput, "lanes") IN
         IF ~IsArray(lanes) \/ ArrLen(lanes) = 0 THEN Threw("SCXQ2: lanes missing")
         ELSE IF \E n \in DOMAIN lanes.v : ~Truthy(LaneIdOf(lanes.v[n]))
         THEN Threw("SCXQ2: lane_id missing")
         ELSE IF \E n \in DOMAIN lanes.v : ~IsString(Get(lanes.v[n], "text"))
         THEN Threw("SCXQ2: lane text invalid")
         ELSE [v |-> SortLanes([n \in DOMAIN lanes.v |->
                                   [lane_id |-> LaneIdOf(lanes.v[n]),
                                    text |-> Get(lanes.v[n], "text")]],
                               DOMAIN lanes.v)]

\* "\n\n/*__LANE_BREAK__*/\n\n"
LaneBreak ==
    <<10, 10, 47, 42, 95, 95, 76, 65, 78, 69, 95, 66, 82, 69, 65, 75, 95, 95,
      42, 47, 10, 10>>

\* texts.join(LaneBreak)
RECURSIVE JoinLanes(_)
JoinLanes(texts) ==
    IF Len(texts) = 0 THEN <<>>
    ELSE IF Len(texts) = 1 THEN texts[1]
    ELSE texts[1] \o LaneBreak \o JoinLanes(Tail(texts))

\* the body of the lane loop of ccCompressLanes: the lane's block, or the Error
LaneBlock(lane, dict, dictJson, o) ==
    Only({Only({Only({Only({
        IF "threw" \in DOMAIN rt0 THEN rt0
        ELSE IF sha256HexUtf8(UStr(rt0.value)) # srcSha
        THEN Threw("SCXQ2: lane roundtrip mismatch")
        ELSE blockJson
        : rt0 \in {ccDecompress(dictJson, blockJson)}})
        : blockJson \in
            {LET blockJson0 == makeLaneBlockJson(lane.lane_id, b64, srcSha,
                                                 Get(dictJson, "dict_sha256_canon"),
                                                 src, o, edges)
             IN Put(blockJson0, "block_sha256_canon",
                    sha256HexUtf8(canon(strip(blockJson0, <<"block_sha256_canon">>))))}})
        : srcSha \in {sha256HexUtf8(UStr(src))},
          b64 \in {encodeSCXQ2(src, dict).b64},
          edges \in {encodeEdges(src, dict, o.enableEdgeOps)}})
        : src \in {canonicalizeInput(lane.text.v)}})

ccCompressLanes(laneInput, op, t) ==
    Only({
      IF "threw" \in DOMAIN lanes THEN lanes
      ELSE
      Only({Only({Only({Only({Only({
        IF \E n \in DOMAIN laneBlocks : "threw" \in DOMAIN laneBlocks[n]
        THEN laneBlocks[CHOOSE n \in DOMAIN laneBlocks :
                           /\ "threw" \in DOMAIN laneBlocks[n]
                           /\ \A m \in 1..(n - 1) : "threw" \notin DOMAIN laneBlocks[m]]
        ELSE Obj(<< <<"dict", dictJson>>,
                    <<"lanes", Arr(laneBlocks)>>,
                    <<"proof",
                      Obj(<< <<"@type", SStr("cc.lanes.proof")>>,
                        <<"@version", SStr("1.0.0")>>,
                        <<"engine", EngineId>>,
                        <<"created_utc", o.created_utc>>,
                        <<"dict_sha256_canon", Get(dictJson, "dict_sha256_canon")>>,
                        <<"lanes",
                          Arr([n \in DOMAIN laneBlocks |->
                            Obj(<< <<"lane_id", Get(laneBlocks[n], "lane_id")>>,
                                   <<"source_sha256_utf8",
                                     Get(laneBlocks[n], "source_sha256_utf8")>>,
                                   <<"block_sha256_canon",
                                     Get(laneBlocks[n], "block_sha256_canon")>> >>)])>>,
                        <<"ok", JBool(TRUE)>>,
                        <<"steps",
                          Arr(<< Obj(<< <<"op", SStr("cc.lane.v1")>>,
                                        <<"lanes", JNum(Len(laneBlocks))>> >>),
                                 Obj(<< <<"op", SStr("cc.dict.v1")>>,
                                        <<"dict_entries",
                                          JNum(ArrLen(Get(dictJson, "dict")))>> >>) >>)>> >>)>>,
                    <<"audit",
                      Obj(<< <<"@type", SStr("cc.lanes.audit")>>,
                             <<"@version", SStr("1.0.0")>>,
                             <<"engine", EngineId>>,
                             <<"created_utc", o.created_utc>>,
                             <<"dict_entries", JNum(ArrLen(Get(dictJson, "dict")))>>,
                             <<"lane_count", JNum(Len(laneBlocks))>> >>)>> >>)
        : laneBlocks \in {[n \in DOMAIN lanes.v |->
                              LaneBlock(lanes.v[n], dict, dictJson, o)]}})
        : dictJson \in
            {LET dictJson0 == makeDictJson(dict, joinedSha, o)
             IN Put(dictJson0, "dict_sha256_canon",
                    sha256HexUtf8(canon(strip(dictJson0, <<"dict_sha256_canon">>))))}})
        : dict \in {buildDict(tokenStats, o)}})
        : joinedSha \in {sha256HexUtf8(UStr(joined))},
          tokenStats \in {collectTokens(joined, o)}})
        : joined \in {JoinLanes([n \in DOMAIN lanes.v |->
                                    canonicalizeInput(lanes.v[n].text.v)])}})
      : o \in {normalizeOpts(op, t)},
        lanes \in {normalizeLanes(laneInput)}})

\* the body of the lane loop of ccCompressLanesSync: the lane's block, or the Error
LaneBlockSync(lane, dict, dictJson, o) ==
    Only({Only({Only({Only({
        IF "threw" \in DOMAIN rt0 THEN rt0
        ELSE IF sha256HexUtf8Sync(UStr(rt0.value)) # srcSha
        THEN Threw("SCXQ2: lane roundtrip mismatch")
        ELSE blockJson
        : rt0 \in {ccDecompress(dictJson, blockJson)}})
        : blockJson \in
            {LET blockJson0 == makeLaneBlockJson(lane.lane_id, b64, srcSha,
                                                 Get(dictJson, "dict_sha256_canon"),
                                                 src, o, edges)
             IN Put(blockJson0, "block_sha256_canon",
                    sha256HexUtf8Sync(canon(strip(blockJson0, <<"block_sha256_canon">>))))}})
        : srcSha \in {sha256HexUtf8Sync(UStr(src))},
          b64 \in {encodeSCXQ2(src, dict).b64},
          edges \in {encodeEdges(src, dict, o.enableEdgeOps)}})
        : src \in {canonicalizeInput(lane.text.v)}})

ccCompressLanesSync(laneInput, op, t, node) ==
    IF ~node
    THEN Threw("SCXQ2: ccCompressLanesSync requires Node.js crypto")
    ELSE
    Only({
      IF "threw" \in DOMAIN lanes THEN lanes
      ELSE
      Only({Only({Only({Only({Only({
        IF \E n \in DOMAIN laneBlocks : "threw" \in DOMAIN laneBlocks[n]
        THEN laneBlocks[CHOOSE n \in DOMAIN laneBlocks :
                           /\ "threw" \in DOMAIN laneBlocks[n]
                           /\ \A m \in 1..(n - 1) : "threw" \notin DOMAIN laneBlocks[m]]
        ELSE Obj(<< <<"dict", dictJson>>,
                    <<"lanes", Arr(laneBlocks)>>,
                    <<"proof",
                      Obj(<< <<"@type", SStr("cc.lanes.proof")>>,
                        <<"@version", SStr("1.0.0")>>,
                        <<"engine", EngineId>>,
                        <<"created_utc", o.created_utc>>,
                        <<"dict_sha256_canon", Get(dictJson, "dict_sha256_canon")>>,
                        <<"lanes",
                          Arr([n \in DOMAIN laneBlocks |->
                            Obj(<< <<"lane_id", Get(laneBlocks[n], "lane_id")>>,
                                   <<"source_sha256_utf8",
                                     Get(laneBlocks[n], "source_sha256_utf8")>>,
                                   <<"block_sha256_canon",
                                     Get(laneBlocks[n], "block_sha256_canon")>> >>)])>>,
                        <<"ok", JBool(TRUE)>> >>)>>,
                    <<"audit",
                      Obj(<< <<"@type", SStr("cc.lanes.audit")>>,
                             <<"@version", SStr("1.0.0")>>,
                             <<"engine", EngineId>>,
                             <<"created_utc", o.created_utc>>,
                             <<"dict_entries", JNum(ArrLen(Get(dictJson, "dict")))>>,
                             <<"lane_count", JNum(Len(laneBlocks))>> >>)>> >>)
        : laneBlocks \in {[n \in DOMAIN lanes.v |->
                              LaneBlockSync(lanes.v[n], dict, dictJson, o)]}})
        : dictJson \in
            {LET dictJson0 == makeDictJson(dict, joinedSha, o)
             IN Put(dictJson0, "dict_sha256_canon",
                    sha256HexUtf8Sync(canon(strip(dictJson0, <<"dict_sha256_canon">>))))}})
        : dict \in {buildDict(tokenStats, o)}})
        : joinedSha \in {sha256HexUtf8Sync(UStr(joined))},
          tokenStats \in {collectTokens(joined, o)}})
        : joined \in {JoinLanes([n \in DOMAIN lanes.v |->
                                    canonicalizeInput(lanes.v[n].text.v)])}})
      : o \in {normalizeOpts(op, t)},
        lanes \in {normalizeLanes(laneInput)}})


(***************************************************************************)
(* The engine's API as a state machine: up to two compression calls on the *)
(* same input and opts with the clock advancing between them, and a        *)
(* ccDecompress call on the first result or on a crafted dict/block pair.  *)
(***************************************************************************)
MaxPieces == 2
MaxTicks == 1

\* "ABCD ", "\r\n", "\r", a non-ASCII unit, ";"
Pieces == {<<65, 66, 67, 68, 32>>, <<13, 10>>, <<13>>, <<300>>, <<59>>}

\* the texts made of at most n pieces
RECURSIVE Sources(_)
Sources(n) ==
    IF n = 0 THEN {<<>>}
    ELSE Sources(n - 1) \cup {s \o p : s \in Sources(n - 1), p \in Pieces}

OptsInputs ==
    {Obj(<<>>),
     Obj(<< <<"created_utc", TestCreatedUtc>> >>),
     Obj(<< <<"created_utc", TestCreatedUtc>>, <<"minLen", JNum(5)>> >>),
     Obj(<< <<"maxDict", JNum(0)>>, <<"noWS", JBool(TRUE)>> >>)}

\* { lanes: [{ lane_id: "b", text: input }, { lane_id: " a", text: "ABCD" }] }
LaneInputOf(inp) ==
    Obj(<< <<"lanes",
             Arr(<< Obj(<< <<"lane_id", UStr(<<98>>)>>, <<"text", UStr(inp)>> >>),
                    Obj(<< <<"lane_id", UStr(<<32, 97>>)>>,
                           <<"text", UStr(<<65, 66, 67, 68>>)>> >>) >>)>> >>)

\* a structurally valid dict/block pair around the bytes bs
CraftPair(bs) ==
    [dict |-> TestDict(Arr(<<UStr(<<65, 66>>)>>), SStr("00")),
     block |-> TestBlock(SStr("x"), SStr("00"), SStr("00"),
                         UStr(bytesToBase64(bs)), SStr("00"))]

\* the same two lanes with lane_id "a" and " a", which trim to the same id
SameIdLanesOf(inp) ==
    Obj(<< <<"lanes",
             Arr(<< Obj(<< <<"lane_id", UStr(<<97>>)>>, <<"text", UStr(inp)>> >>),
                    Obj(<< <<"lane_id", UStr(<<32, 97>>)>>,
                           <<"text", UStr(<<65, 66, 67, 68>>)>> >>) >>)>> >>)

\* laneInput with its lanes array in reverse order
ReverseLanes(laneInput) ==
    LET ls == Get(laneInput, "lanes").v IN
    Put(laneInput, "lanes", Arr([n \in DOMAIN ls |-> ls[Len(ls) + 1 - n]]))

\* the lane inputs of the next call: those built around the input for a first
\* call, the lanes of the first call in either order for a second one
LaneInputs ==
    IF first = Undef THEN {LaneInputOf(input), SameIdLanesOf(input)}
    ELSE {first.lanes, ReverseLanes(first.lanes)}

SingleFns == {"ccCompress", "ccCompressSync"}
LanesFns == {"ccCompressLanes", "ccCompressLanesSync"}

\* a compression call of the family fns may be made now
CanCall(fns) ==
    /\ opts # Undef
    /\ rt = Undef
    /\ \/ first = Undef
       \/ first # Undef /\ second = Undef /\ first.fn \in fns

\* the call fn returned (or threw) ret
Returned(fn, lanes, ret) ==
    /\ IF first = Undef
       THEN /\ first' = [fn |-> fn, at |-> now, lanes |-> lanes, ret |-> ret]
            /\ UNCHANGED second
       ELSE /\ second' = [fn |-> fn, at |-> now, lanes |-> lanes, ret |-> ret]
            /\ UNCHANGED first
    /\ UNCHANGED <<input, opts, now, nodeCrypto, craft, rt, codecVars, verifyVars, canonVars, wasmVars>>

CallCompress ==
    /\ CanCall(SingleFns)
    /\ Returned("ccCompress", Undef, ccCompress(input, opts, now))

CallCompressSync ==
    /\ CanCall(SingleFns)
    /\ Returned("ccCompressSync", Undef, ccCompressSync(input, opts, now, nodeCrypto))

CallCompressLanes ==
    /\ CanCall(LanesFns)
    /\ \E laneInput \in LaneInputs :
          Returned("ccCompressLanes", laneInput,
                   ccCompressLanes(laneInput, opts, now))

CallCompressLanesSync ==
    /\ CanCall(LanesFns)
    /\ \E laneInput \in LaneInputs :
          Returned("ccCompressLanesSync", laneInput,
                   ccCompressLanesSync(laneInput, opts, now, nodeCrypto))

\* a second of the clock passes between two calls
Tick ==
    /\ first # Undef /\ second = Undef /\ rt = Undef
    /\ now < MaxTicks
    /\ now' = now + 1
    /\ UNCHANGED <<input, opts, nodeCrypto, first, second, craft, rt,
                   codecVars, verifyVars, canonVars, wasmVars>>

\* ccDecompress(pack.dict, pack.block) on the result of the first call
CallDecompress ==
    /\ rt = Undef
    /\ first # Undef /\ second = Undef
    /\ first.fn \in SingleFns
    /\ "threw" \notin DOMAIN first.ret
    /\ rt' = ccDecompress(Get(first.ret, "dict"), Get(first.ret, "block"))
    /\ UNCHANGED <<input, opts, now, nodeCrypto, first, second, craft,
                   codecVars, verifyVars, canonVars, wasmVars>>

\* ccDecompress(dict, block) on the crafted pair
CallDecompressCrafted ==
    /\ rt = Undef
    /\ craft # Undef
    /\ rt' = ccDecompress(craft.dict, craft.block)
    /\ UNCHANGED <<input, opts, now, nodeCrypto, first, second, craft,
                   codecVars, verifyVars, canonVars, wasmVars>>

\* the pack a caller assembles from the result of ccCompress and seals:
\* pack_sha256_canon = sha256HexUtf8(canon(strip(pack, ["pack_sha256_canon"])))
AssemblePack(ret) ==
    SealObj(Obj(<< <<"@type", SStr("scxq2.pack")>>,
                   <<"@version", SStr("1.0.0")>>,
                   <<"mode", Get(Get(ret, "dict"), "mode")>>,
                   <<"encoding", Get(Get(ret, "dict"), "encoding")>>,
                   <<"dict", Get(ret, "dict")>>,
                   <<"blocks", Arr(<<Get(ret, "block")>>)>>,
                   <<"proof", Get(ret, "proof")>> >>),
            "pack_sha256_canon")

\* scxq2PackVerify(pack) on the pack assembled from the result of the first
\* call, a ccCompress that returned
VerifyAssembled ==
    /\ vpc = "idle"
    /\ first # Undef /\ second = Undef /\ rt = Undef
    /\ first.fn = "ccCompress"
    /\ "threw" \notin DOMAIN first.ret
    /\ thePack' = AssemblePack(first.ret)
    /\ policy' = SCXQ2_DEFAULT_POLICY
    /\ vres' = scxq2PackVerify(AssemblePack(first.ret), SCXQ2_DEFAULT_POLICY)
    /\ vpc' = "verified"
    /\ UNCHANGED <<nEdits, codecVars, canonVars, wasmVars, engineVars>>

InitCompress ==
    /\ input \in Sources(MaxPieces)
    /\ opts \in OptsInputs
    /\ nodeCrypto \in BOOLEAN
    /\ craft = Undef

InitCrafted ==
    /\ input = <<>>
    /\ opts = Undef
    /\ nodeCrypto = TRUE
    /\ craft \in {CraftPair(bs) : bs \in SeqsUpTo(ByteVals, MaxBytes)}

InitEngine ==
    /\ InitCompress \/ InitCrafted
    /\ WasmIdle
    /\ now = 0
    /\ first = Undef
    /\ second = Undef
    /\ rt = Undef
    /\ CodecIdle
    /\ VerifyIdle
    /\ CanonIdle

NextEngine ==
    \/ CallCompress
    \/ CallCompressSync
    \/ CallCompressLanes
    \/ CallCompressLanesSync
    \/ Tick
    \/ CallDecompress
    \/ CallDecompressCrafted
    \/ VerifyAssembled

SpecEngine == InitEngine /\ [][NextEngine]_vars

(***************************************************************************)
(* Claims about the engine's API.                                          *)
(***************************************************************************)
\* both calls were made, by the same function of fns, and both returned
BothReturned(fns) ==
    /\ first # Undef /\ second # Undef
    /\ first.fn \in fns /\ second.fn = first.fn
    /\ "threw" \notin DOMAIN first.ret
    /\ "threw" \notin DOMAIN second.ret

\* C14: two calls of ccCompress (or of ccCompressSync) with identical input
\* and identical opts, made at any two times, return identical dict, block
\* and proof objects, dict_sha256_canon and block_sha256_canon included.
C14_AnyTwoTimes ==
    BothReturned(SingleFns) =>
        /\ Get(first.ret, "dict") = Get(second.ret, "dict")
        /\ Get(first.ret, "block") = Get(second.ret, "block")
        /\ Get(first.ret, "proof") = Get(second.ret, "proof")

\* ccCompress("ABCD ABCD ", {}) was called in two different seconds and the
\* two dicts carry different created_utc and different dict_sha256_canon
C14_Witness ==
    /\ BothReturned({"ccCompress"})
    /\ input = <<65, 66, 67, 68, 32, 65, 66, 67, 68, 32>>
    /\ opts = Obj(<<>>)
    /\ first.at # second.at
    /\ Get(Get(first.ret, "dict"), "dict") = Get(Get(second.ret, "dict"), "dict")
    /\ Get(Get(first.ret, "dict"), "created_utc")
         # Get(Get(second.ret, "dict"), "created_utc")
    /\ Get(Get(first.ret, "dict"), "dict_sha256_canon")
         # Get(Get(second.ret, "dict"), "dict_sha256_canon")
    /\ Get(Get(first.ret, "block"), "block_sha256_canon")
         # Get(Get(second.ret, "block"), "block_sha256_canon")

\* the first call was ccCompress and it returned a pack
Compressed ==
    /\ first # Undef
    /\ first.fn = "ccCompress"
    /\ "threw" \notin DOMAIN first.ret

\* s from position k on, with every "\r\n" and every other "\r" written "\n"
RECURSIVE LfFrom(_, _)
LfFrom(s, k) ==
    IF k > Len(s) THEN <<>>
    ELSE IF s[k] # 13 THEN <<s[k]>> \o LfFrom(s, k + 1)
    ELSE IF k < Len(s) /\ s[k + 1] = 10 THEN LfFrom(s, k + 1)
    ELSE <<10>> \o LfFrom(s, k + 1)

NewlinesAsLf(s) == LfFrom(s, 1)

HasCr(s) == \E k \in DOMAIN s : s[k] = 13

\* C15 as stated: for every string source and every opts,
\* pack = ccCompress(source, opts) has pack.proof.ok === true and
\* ccDecompress(pack.dict, pack.block) === source.
C15_RoundtripAnySource ==
    /\ first # Undef /\ first.fn = "ccCompress" =>
          /\ "threw" \notin DOMAIN first.ret
          /\ Get(Get(first.ret, "proof"), "ok") = JBool(TRUE)
    /\ Compressed /\ rt # Undef => rt = [value |-> input]

\* C15 as amended: pack = ccCompress(source, opts) has pack.proof.ok === true
\* and ccDecompress(pack.dict, pack.block) is source with every "\r\n" and
\* every other "\r" replaced by "\n"; it is source itself exactly when
\* source holds no "\r".
C15_RoundtripNormalized ==
    /\ first # Undef /\ first.fn = "ccCompress" =>
          /\ "threw" \notin DOMAIN first.ret
          /\ Get(Get(first.ret, "proof"), "ok") = JBool(TRUE)
    /\ Compressed /\ rt # Undef =>
          /\ rt = [value |-> NewlinesAsLf(input)]
          /\ (rt = [value |-> input]) <=> ~HasCr(input)

\* ccCompress("ABCD \r", opts) returned a pack with proof.ok true and
\* ccDecompress gave "ABCD \n" for it
C15_Witness ==
    /\ Compressed
    /\ input = <<65, 66, 67, 68, 32, 13>>
    /\ Get(Get(first.ret, "proof"), "ok") = JBool(TRUE)
    /\ rt = [value |-> <<65, 66, 67, 68, 32, 10>>]

\* C16: for the same input and the same opts (created_utc supplied), where
\* the blocking forms are available, ccCompressSync returns the same
\* {dict, block, proof, audit} as ccCompress and ccCompressLanesSync the same
\* {dict, lanes, proof, audit} as ccCompressLanes, field for field.
C16_SyncAgrees ==
    /\ first # Undef /\ second # Undef
    /\ first.fn # second.fn
    /\ first.lanes = second.lanes
    /\ Has(opts, "created_utc")
    /\ nodeCrypto
    => first.ret = second.ret

\* ccCompressLanes and ccCompressLanesSync returned for the same lanes and
\* opts with created_utc: dict, lanes and audit agree, and only the proof of
\* ccCompressLanes has steps
C16_Witness ==
    /\ first # Undef /\ second # Undef
    /\ first.fn = "ccCompressLanes" /\ second.fn = "ccCompressLanesSync"
    /\ first.lanes = second.lanes
    /\ Has(opts, "created_utc")
    /\ nodeCrypto
    /\ "threw" \notin DOMAIN first.ret
    /\ "threw" \notin DOMAIN second.ret
    /\ Get(first.ret, "dict") = Get(second.ret, "dict")
    /\ Get(first.ret, "lanes") = Get(second.ret, "lanes")
    /\ Get(first.ret, "audit") = Get(second.ret, "audit")
    /\ Has(Get(first.ret, "proof"), "steps")
    /\ ~Has(Get(second.ret, "proof"), "steps")
    /\ Del(Get(first.ret, "proof"), "steps") = Get(second.ret, "proof")

\* the bytes of the crafted block
CraftBytes == base64ToBytes(Get(craft.block, "b64").v)

\* the crafted pair passes verifyPack and its byte stream is ill-formed under
\* the decode law: scxq2DecodeUtf16 with no output limit in reach rejects it
\* for a byte in 0x82..0xFF, a truncated sequence or a dictionary index out
\* of bounds
CraftIllFormed ==
    /\ verifyPack(craft.dict, craft.block) = ""
    /\ LET r == scxq2DecodeUtf16(Get(craft.dict, "dict"), CraftBytes,
                                 2 * (Len(CraftBytes) + 1))
       IN /\ ~r.ok
          /\ r.kind \in {"invalid_byte", "truncated_sequence", "dict_index_oob"}

\* C17: for a structurally valid dict/block pair whose byte stream is
\* ill-formed under the decode law, ccDecompress throws and never returns a
\* string.
C17_DecompressFailsClosed ==
    craft # Undef /\ rt # Undef /\ CraftIllFormed => "threw" \in DOMAIN rt

\* ccDecompress returned the one-unit string "\u0082" for the block whose
\* byte stream is the single byte 0x82
C17_Witness ==
    /\ craft = CraftPair(<<130>>)
    /\ CraftIllFormed
    /\ rt = [value |-> <<130>>]

(***************************************************************************)
(* Further properties of the verifier.                                     *)
(***************************************************************************)
\* C21: in every pack accepted by scxq2PackVerify under the default policy
\* the proof has ok == true if and only if proof.source_sha256_utf8 equals
\* proof.roundtrip_sha256_utf8.
C21_ProofInvariant ==
    Verified /\ policy = SCXQ2_DEFAULT_POLICY /\ vres.ok =>
        LET proof == Get(thePack, "proof") IN
        StrictEq(Get(proof, "ok"), JBool(TRUE))
            <=> StrictEq(Get(proof, "source_sha256_utf8"),
                         Get(proof, "roundtrip_sha256_utf8"))

\* The sealed two-lane pack whose proof has ok true, source_sha256_utf8 "00"
\* and roundtrip_sha256_utf8 "11" is accepted under the default policy.
C21_Witness ==
    /\ Verified /\ policy = SCXQ2_DEFAULT_POLICY
    /\ vres.ok
    /\ Get(Get(thePack, "proof"), "ok") = JBool(TRUE)
    /\ Get(Get(thePack, "proof"), "source_sha256_utf8") = SStr("00")
    /\ Get(Get(thePack, "proof"), "roundtrip_sha256_utf8") = SStr("11")

\* the number of entries of the verified pack's dictionary
VerifiedDictLen == ArrLen(Get(Get(thePack, "dict"), "dict"))

\* C22: for every policy passed to scxq2PackVerify, no pack whose dictionary
\* has more than 65535 entries is accepted.
C22_DictBound ==
    Verified /\ vres.ok => VerifiedDictLen <= SCXQ2_DEFAULT_POLICY.maxDictEntries

\* The sealed two-lane pack with the dictionary Array(65536).fill("AB") is
\* accepted under { maxDictEntries: 65536 }.
C22_Witness ==
    /\ Verified /\ vres.ok
    /\ policy = [SCXQ2_DEFAULT_POLICY EXCEPT !.maxDictEntries = 65536]
    /\ Get(Get(thePack, "dict"), "dict")
         = Fill(SCXQ2_DEFAULT_POLICY.maxDictEntries + 1, UStr(<<65, 66>>))

\* The checks of STEP 1 in the order of the function body, each with the code
\* it reports; a check after the first reads a field of the pack.
PackCheckCodes ==
    <<"scxq2.error.pack_missing", "scxq2.error.pack_type_invalid",
      "scxq2.error.pack_version_unsupported", "scxq2.error.pack_mode_mismatch",
      "scxq2.error.pack_encoding_mismatch", "scxq2.error.pack_field_forbidden",
      "scxq2.error.pack_created_utc_invalid", "scxq2.error.dict_missing",
      "scxq2.error.pack_blocks_missing", "scxq2.error.decode_input_limit",
      "scxq2.error.pack_proof_missing">>

\* check c, taken alone, fails on the verified pack under the verified policy
PackCheckFails(c) ==
    CASE c = 1 -> ~Truthy(thePack) \/ ~IsObjectType(thePack)
      [] c = 2 -> IsObj(thePack)
                  /\ ~StrictEq(Get(thePack, "@type"), SStr("scxq2.pack"))
      [] c = 3 -> IsObj(thePack)
                  /\ ~StrictEq(Get(thePack, "@version"), SStr("1.0.0"))
      [] c = 4 -> IsObj(thePack)
                  /\ ~Includes(policy.allowedModes, Get(thePack, "mode"))
      [] c = 5 -> IsObj(thePack)
                  /\ ~Includes(policy.allowedEncodings, Get(thePack, "encoding"))
      [] c = 6 -> IsObj(thePack)
                  /\ policy.allowUnknownPackFields = FALSE
                  /\ hasUnknownFields(thePack, KNOWN_PACK_FIELDS)
      [] c = 7 -> IsObj(thePack)
                  /\ Has(thePack, "created_utc")
                  /\ ~isoUtcLike(Get(thePack, "created_utc"))
      [] c = 8 -> IsObj(thePack) /\ ~Truthy(Get(thePack, "dict"))
      [] c = 9 -> IsObj(thePack)
                  /\ (~IsArray(Get(thePack, "blocks"))
                      \/ ArrLen(Get(thePack, "blocks")) < 1)
      [] c = 10 -> IsObj(thePack)
                   /\ IsArray(Get(thePack, "blocks"))
                   /\ ArrLen(Get(thePack, "blocks")) > policy.maxBlocks
      [] c = 11 -> IsObj(thePack)
                   /\ policy.requireProof /\ ~Truthy(Get(thePack, "proof"))

FailingPackChecks == {c \in DOMAIN PackCheckCodes : PackCheckFails(c)}

\* C23: within STEP 1 the checks run in the written order (pack present,
\* @type, @version, mode, encoding, unknown fields, created_utc, dict present,
\* blocks a non-empty array, block count, proof present): a pack failing
\* several of them is rejected with the code of the first one in that order.
C23_WrittenOrder ==
    Verified /\ FailingPackChecks # {} =>
        LET c == CHOOSE x \in FailingPackChecks :
                     \A y \in FailingPackChecks : x <= y IN
        /\ Rejected(PackCheckCodes[c])
        /\ vres.error.phase = (IF c = 8 THEN "dict" ELSE "pack")

\* A pack with neither dict, blocks nor proof is reported with dict_missing;
\* it fails three checks at once.
C23_Witness ==
    /\ Verified
    /\ FailingPackChecks = {8, 9, 11}
    /\ Rejected("scxq2.error.dict_missing")

\* what the loop body of step n (3, 4 or 5) returns for block k
BlockErrAt(n, k) ==
    CASE n = 3 -> BlockStructureAt(policy, thePack, k)
      [] n = 4 -> BlockShaAt(thePack, k)
      [] n = 5 -> DecodeBlockAt(policy, thePack, k)

\* the indexes of the blocks that fail a check of step n
FailingBlocks(n) ==
    {k \in 0..(ArrLen(Get(thePack, "blocks")) - 1) : BlockErrAt(n, k) # NoErr}

\* the verifier has returned an error of a block from step n
BlockErrorOf(n) ==
    /\ Verified
    /\ ~vres.ok
    /\ "index" \in DOMAIN vres.error.at
    /\ EarliestFailing(1) = n

\* C24: in the block loops of steps 3, 4 and 5 the reported error is the one
\* of the failing block with the smallest index, whatever a check of that
\* step finds in a block with a larger index.
C24_AscendingBlockIndex ==
    (Verified /\ ~vres.ok /\ "index" \in DOMAIN vres.error.at) =>
        \A n \in {EarliestFailing(1)} :
            n \in {3, 4, 5} =>
                \A failing \in {FailingBlocks(n)} :
                    /\ vres.error.at.index \in failing
                    /\ \A k \in failing : vres.error.at.index <= k
                    /\ vres = fail(BlockErrAt(n, vres.error.at.index))

\* Both blocks fail step 5, block 0 at the decode and block 1 at the roundtrip
\* hash: the decode error of block 0 is reported.
C24_Witness ==
    /\ BlockErrorOf(5)
    /\ FailingBlocks(5) = {0, 1}
    /\ BlockErrAt(5, 0).code # BlockErrAt(5, 1).code
    /\ vres.error.at.index = 0
    /\ vres.error.code = BlockErrAt(5, 0).code

(* Further properties of the encoder. *)
\* entry n (from 1) is the first entry, in dictionary order, that is a prefix
\* of the text at the scan position
FirstPrefixAt(n) ==
    /\ StartsWith(text, dictArr.v[n].v, eI)
    /\ \A k \in 1..(n - 1) : ~StartsWith(text, dictArr.v[k].v, eI)

\* the index of the last entry equal to entry n
LastEqual(n) ==
    CHOOSE m \in n..ArrLen(dictArr) :
        /\ dictArr.v[m] = dictArr.v[n]
        /\ \A k \in (m + 1)..ArrLen(dictArr) : dictArr.v[k] # dictArr.v[n]

\* the iteration emits a reference to index j (from 0) for the first matching
\* entry n and advances by the length of that entry
EmitsRef(n, j) ==
    /\ eBytes' = eBytes \o <<128, j \div 256, j % 256>>
    /\ eI' = eI + Len(dictArr.v[n].v)

\* the iteration emits the current code unit and advances by one
EmitsUnit ==
    LET u == text[eI + 1] IN
    /\ eBytes' = eBytes \o (IF u < 128 THEN <<u>> ELSE <<129, u \div 256, u % 256>>)
    /\ eI' = eI + 1

\* one iteration of the scan loop has run
ScanIteration == pc = "encode" /\ pc' = "encode"

SameLanesTwice ==
    /\ BothReturned(LanesFns)
    /\ second.lanes \in {first.lanes, ReverseLanes(first.lanes)}
    /\ Has(opts, "created_utc") \/ first.at = second.at

\* C26: ccCompressLanes (and ccCompressLanesSync) returns the same dict, the
\* same blocks in the same order and the same hashes for every order of the
\* input lanes array, with opts and created_utc fixed.
C26_LaneOrderIndependent ==
    SameLanesTwice =>
        /\ Get(first.ret, "dict") = Get(second.ret, "dict")
        /\ Get(first.ret, "lanes") = Get(second.ret, "lanes")

\* Two lanes whose lane_id trim to the same id, passed in both orders with
\* created_utc supplied: the dictionaries carry different source hashes and
\* the blocks come back in different order.
C26_Witness ==
    /\ SameLanesTwice
    /\ Has(opts, "created_utc")
    /\ first.lanes = SameIdLanesOf(input)
    /\ second.lanes = ReverseLanes(first.lanes)
    /\ Get(Get(first.ret, "dict"), "source_sha256_utf8")
         # Get(Get(second.ret, "dict"), "source_sha256_utf8")
    /\ Get(Get(first.ret, "dict"), "dict_sha256_canon")
         # Get(Get(second.ret, "dict"), "dict_sha256_canon")
    /\ Get(first.ret, "lanes") # Get(second.ret, "lanes")

\* the trimmed lane ids of the first call are pairwise different
DistinctLaneIds ==
    LET ls == Get(first.lanes, "lanes").v IN
    \A n, m \in DOMAIN ls : n # m => LaneIdOf(ls[n]) # LaneIdOf(ls[m])

(* Further properties of the decoder. *)
\* the code units one token can append: the length of a dictionary entry, or
\* one for a literal
TokenLens ==
    {1} \cup {Len(dictArr.v[n].v) : n \in {k \in 1..ArrLen(dictArr) : IsString(dictArr.v[k])}}

\* C27: scxq2DecodeUtf16 tests the output limit after every token: a token is
\* appended only while the output is within maxOutputUnits, so the output
\* never exceeds the limit by more than the one token just appended (the
\* length of a single dictionary entry, one unit for a literal), and the
\* iteration that exceeds the limit returns output_limit, so that no further
\* token is appended.
C27_IncrementalLimit ==
    [][pc = "decode" =>
          /\ outUnits <= maxOut
          /\ \/ out' = out /\ outUnits' = outUnits
             \/ \E n \in TokenLens :
                   /\ outUnits' = outUnits + n
                   /\ Len(out') = Len(out) + n
                   /\ outUnits' <= maxOut + n
          /\ outUnits' > maxOut =>
                /\ pc' = "done"
                /\ dres' = DecFail("output_limit", Min(Len(bytes) - 1, i'))]_codecVars

\* The output stands at the limit, a dictionary entry of two units is
\* appended, and the decoder returns with a token left unread.
C27_Witness ==
    /\ pc = "done" /\ origin = "raw"
    /\ dres.ok = FALSE /\ dres.kind = "output_limit"
    /\ outUnits = maxOut + 2
    /\ i < Len(bytes) /\ bytes[i + 1] <= 127

\* the number of tokens in the encoder's bytes: one per iteration of the scan
\* loop that has run
RECURSIVE Iterations(_)
Iterations(bs) ==
    IF bs = <<>> THEN 0
    ELSE IF bs[1] < 128 THEN 1 + Iterations(SubSeq(bs, 2, Len(bs)))
    ELSE 1 + Iterations(SubSeq(bs, 4, Len(bs)))

AssembledVerified ==
    /\ Verified
    /\ first # Undef /\ first.fn = "ccCompress"
    /\ thePack = AssemblePack(first.ret)

\* C29: for every input text, the empty string included, the pack assembled
\* from the output of ccCompress and sealed with its pack_sha256_canon is
\* accepted by scxq2PackVerify under the default policy.
C29_ProducerVerifierAgree ==
    AssembledVerified => vres.ok

\* ccCompress("") returns a block with b64 "" and a proof with ok true; the
\* assembled pack is rejected in the block structure step.
C29_Witness ==
    /\ AssembledVerified
    /\ input = <<>>
    /\ Get(Get(first.ret, "proof"), "ok") = JBool(TRUE)
    /\ Get(Get(first.ret, "block"), "b64") = UStr(<<>>)
    /\ Rejected("scxq2.error.block_b64_missing")

\* for a text that is not empty the assembled pack is accepted
NonEmptyAccepted ==
    AssembledVerified /\ input # <<>> => vres.ok

(***************************************************************************)
(* decodeWithDict of scxq2CreateWasmUtf16Decoder (the WASM wrapper).  The   *)
(* instance is given by the caller: decode_utf16 returns the number of     *)
(* code units it wrote, or a negative code.                                *)
(***************************************************************************)
WASM_ERR == [INVALID_BYTE |-> -1, TRUNCATED |-> -2, DICT_OOB |-> -3, OUTPUT_LIMIT |-> -4]

\* what decode_utf16 can return for an output buffer of cap units; -5 stands
\* for a code the wrapper does not know
WasmReturns(cap) == {-5, -4, -3, -2, -1} \cup 0..cap

wasmUnchanged == <<codecVars, verifyVars, canonVars, engineVars>>

\* const dictFlat = writeDictUTF16Flat(dictArr)
WriteDict ==
    /\ wpc = "start"
    /\ live' = live \cup {"dict"}
    /\ wpc' = "dict"
    /\ UNCHANGED <<hasFree, outCap, rc, outMem, wres, wasmUnchanged>>

\* const bytesPtr = exports.alloc(bytes.length); writeBytes(bytesPtr, bytes)
WriteBytes ==
    /\ wpc = "dict"
    /\ live' = live \cup {"bytes"}
    /\ wpc' = "bytes"
    /\ UNCHANGED <<hasFree, outCap, rc, outMem, wres, wasmUnchanged>>

\* const outPtr = exports.alloc(outCap * 2)
AllocOut ==
    /\ wpc = "bytes"
    /\ live' = live \cup {"out"}
    /\ wpc' = "out"
    /\ UNCHANGED <<hasFree, outCap, rc, outMem, wres, wasmUnchanged>>

\* const rc = exports.decode_utf16(...): on success rc units are in the
\* output buffer
CallDecodeUtf16 ==
    /\ wpc = "out"
    /\ \E r \in WasmReturns(outCap) :
          /\ rc' = r
          /\ outMem' \in (IF r >= 0 THEN [1..r -> Units] ELSE {<<>>})
    /\ wpc' = "decoded"
    /\ UNCHANGED <<hasFree, outCap, live, wres, wasmUnchanged>>

\* if (exports.free) { free(dictFlat.ptr, ...); free(bytesPtr, ...);
\* free(outPtr, ...) }
FreeBuffers ==
    /\ wpc = "decoded"
    /\ hasFree
    /\ live' = live \ {"dict", "bytes", "out"}
    /\ wpc' = "handle"
    /\ UNCHANGED <<hasFree, outCap, rc, outMem, wres, wasmUnchanged>>

\* the instance has no free
KeepBuffers ==
    /\ wpc = "decoded"
    /\ ~hasFree
    /\ wpc' = "handle"
    /\ UNCHANGED <<hasFree, outCap, live, rc, outMem, wres, wasmUnchanged>>

\* what memU16().subarray(outPtr >> 1, (outPtr >> 1) + rc) holds: the units
\* decode_utf16 wrote while the buffer is allocated; any units once the
\* region has been given back to the allocator
OutputRegion ==
    IF "out" \in live THEN {outMem} ELSE [1..rc -> Units]

\* if (rc >= 0) { ... return { ok: true, value: s } }
ReadOutput ==
    /\ wpc = "handle"
    /\ rc >= 0
    /\ \E u16 \in OutputRegion : wres' = DecOk(u16)
    /\ wpc' = "returned"
    /\ UNCHANGED <<hasFree, outCap, live, rc, outMem, wasmUnchanged>>

\* the mapping of the error codes
WasmError(r, bs) ==
    IF r = WASM_ERR.INVALID_BYTE THEN DecFail("invalid_byte", 0)
    ELSE IF r = WASM_ERR.TRUNCATED THEN DecFail("truncated_sequence", 0)
    ELSE IF r = WASM_ERR.DICT_OOB THEN DecFail("dict_index_oob", 0)
    ELSE IF r = WASM_ERR.OUTPUT_LIMIT
    THEN DecFail("output_limit", IF Len(bs) # 0 THEN Len(bs) - 1 ELSE 0)
    ELSE DecFail("decode_internal", 0)

ReturnError ==
    /\ wpc = "handle"
    /\ rc < 0
    /\ wres' = WasmError(rc, bytes)
    /\ wpc' = "returned"
    /\ UNCHANGED <<hasFree, outCap, live, rc, outMem, wasmUnchanged>>

InitWasm ==
    /\ wpc = "start"
    /\ hasFree \in BOOLEAN
    /\ outCap \in 0..MaxOut
    /\ live = {}
    /\ rc = 0
    /\ outMem = <<>>
    /\ wres = NoResult
    /\ pc = "idle" /\ origin = "none" /\ text = <<>> /\ dictArr = Arr(<<>>)
    /\ eI = 0 /\ eBytes = <<>> /\ maxOut = 0
    /\ bytes \in SeqsUpTo(ByteVals, 1)
    /\ i = 0 /\ out = <<>> /\ outUnits = 0 /\ dres = Running
    /\ VerifyIdle
    /\ CanonIdle
    /\ EngineIdle

NextWasm ==
    \/ WriteDict
    \/ WriteBytes
    \/ AllocOut
    \/ CallDecodeUtf16
    \/ FreeBuffers
    \/ KeepBuffers
    \/ ReadOutput
    \/ ReturnError

SpecWasm == InitWasm /\ [][NextWasm]_vars

\* C30: decodeWithDict reads the decoded output from WASM memory only while
\* the output buffer is allocated: no read of the output region happens
\* after exports.free has been called on that buffer.
C30_ReadWhileAllocated ==
    [][(wpc = "handle" /\ wpc' = "returned" /\ rc >= 0) => "out" \in live]_vars

\* The instance exports free, decode_utf16 wrote two units, the three
\* buffers were freed, and the value returned is not what was written.
C30_Witness ==
    /\ wpc = "returned"
    /\ hasFree
    /\ rc = 2
    /\ live = {}
    /\ wres.ok
    /\ wres.value # outMem

====
